---------------------------- MODULE Spec2Model ----------------------------
(***************************************************************************)
(* A model of the FMS movement-assessment analysis pipeline:               *)
(*   - the scoring engine        (utils/poseAnalysis.ts)                   *)
(*   - the metric evaluator      (utils/poseAnalysis.ts, data/fmsTests.ts) *)
(*   - the joint angle engine    (utils/poseAnalysis.ts)                   *)
(*   - the score card and App    (components/ScoreCard.tsx, App)           *)
(*   - the stereo 3D processor   (utils/pose3D: Pose3DProcessor)           *)
(*                                                                         *)
(* Numbers.  Metric values, angles, bounds and tolerances are held in      *)
(* hundredths of their unit (15 degrees is 1500).  Visibilities are held   *)
(* in hundredths (0.5 is 50).  JavaScript's undefined optional number is   *)
(* the empty sequence and a defined one is a one-element sequence.         *)
(***************************************************************************)
EXTENDS Integers, Sequences, FiniteSets, TLC

VARIABLES
    op,              \* name of the function called on its own ("init" before)
    \* ---- generateAutomaticScore called on its own
    gasResults,      \* the metricResults argument
    gasScore,        \* the value returned
    \* ---- the pass / warning / deviation stage of getDetailedMetricResults
    evMetric,        \* the metric definition
    evActual,        \* the computed actualValue
    evResult,        \* the AssessmentMetricResult pushed
    \* ---- App state (the part the score card reads and writes)
    currentTest,     \* index of the current test in FMS_TESTS
    automaticScore,  \* useState<number>(0)
    assessmentScores,\* AssessmentScore[]
    \* ---- ScoreCard state
    manualScore,
    isEditing,
    painReported,
    overrideReason,
    \* ---- one landmark frame analysed on its own
    landmarks,       \* the PoseKeypoint[] argument
    jointAngles,     \* calculateAllJointAngles(landmarks)
    metricTest,      \* index in FMS_TESTS of the testId argument, 0 before a call
    results,          \* getDetailedMetricResults(testId, landmarks)
    \* ---- Pose3DProcessor
    calibration,     \* the StereoCalibration given to the constructor
    processingTimes, \* number[]
    landmarks2D_cam1,\* argument of the last process3DPose call
    landmarks2D_cam2,\* argument of the last process3DPose call
    pose3D,          \* <<>> or <<the Pose3DLandmarks returned>>
    error3D,         \* message of the Error thrown, "" when none
    calls3D,         \* process3DPose calls made on this processor so far
    \* ---- DropJumpAnalyzer and the athlete it watches
    isAnalyzing,     \* private isAnalyzing
    frameBuffer,     \* private frameBuffer: Pose3DLandmarks[]
    trials,          \* private trials: DropJumpTrial[]
    jump,            \* the movement being performed (where and how the hips drop)
    received,        \* frames handed to processFrame since startAnalysis
    \* ---- DropJumpTest (the dual-camera driver)
    isRecording,     \* useState(false)
    camerasStarted,  \* camera1Ref / camera2Ref have been started
    landmarks1Ref,   \* <<>> for null, or <<the landmark set of camera 1>>
    landmarks2Ref,   \* <<>> for null, or <<the landmark set of camera 2>>
    arrived1,        \* capture ticks of camera 1 whose result has arrived
    arrived2,        \* capture ticks of camera 2 whose result has arrived
    stereoCalls,     \* the pairs of landmark sets passed to process3DPose
    assessment,      \* <<>> or <<the DropJumpAssessment given to onAssessmentComplete>>
    \* ---- MotionCaptureSystem
    mcsIsRecording,  \* private isRecording
    mcsArrays,       \* the frame arrays created so far (an array keeps its identity)
    mcsFrames,       \* private frames: the index in mcsArrays of the array it refers to
    mcsFrameIndex,   \* private frameIndex
    mcsPending,      \* per detector: 1 when its onResults holds the resolve of an awaiting processFrame
    mcsStored,       \* localStorage 'motionRecordings'
    mcsRecordings,   \* the MotionRecordings returned by stopRecording
    \* ---- a function called on its own (op names it)
    fnArgs,          \* its arguments
    fnResult         \* the value returned

scoringVars == <<gasResults, gasScore>>
evalVars == <<evMetric, evActual, evResult>>
appVars == <<currentTest, automaticScore, assessmentScores>>
cardVars == <<manualScore, isEditing, painReported, overrideReason>>
poseVars == <<landmarks, jointAngles, metricTest, results>>
stereoVars == <<calibration, processingTimes, landmarks2D_cam1, landmarks2D_cam2, pose3D, error3D, calls3D>>
analyzerVars == <<isAnalyzing, frameBuffer, trials, jump, received>>
jumpTestVars ==
    <<isRecording, camerasStarted, landmarks1Ref, landmarks2Ref, arrived1, arrived2,
      stereoCalls, assessment>>
captureVars ==
    <<mcsIsRecording, mcsArrays, mcsFrames, mcsFrameIndex, mcsPending, mcsStored,
      mcsRecordings>>
callVars == <<fnArgs, fnResult>>
vars ==
    <<op, scoringVars, evalVars, appVars, cardVars, poseVars, stereoVars, analyzerVars,
      callVars, jumpTestVars, captureVars>>

\* ------------------------------------------------------------------------
\* Bounds of the model
\* ------------------------------------------------------------------------
\* longest metric-result list handed to generateAutomaticScore
MaxMetrics == 4
\* largest whole-unit actual value handed to the evaluator stage
MaxWhole == 130
\* most saves (handleScoreUpdate calls) in one session
MaxSaves == 2
\* most landmarks of a frame that are missing or below full visibility
MaxLow == 2

\* ------------------------------------------------------------------------
\* JavaScript numbers
\* ------------------------------------------------------------------------
\* NaN, which no comparison accepts
NaN == -7777777

Abs(x) == IF x < 0 THEN -x ELSE x

Min2(a, b) == IF a < b THEN a ELSE b

\* Math.round(v * 10) / 10 for v in hundredths: to the nearest tenth, a half
\* going up
Round1(v) == IF v = NaN THEN NaN ELSE ((v + 5) \div 10) * 10

\* a >= b, a <= b as JavaScript evaluates them (false when either is NaN)
Geq(a, b) == a # NaN /\ b # NaN /\ a >= b

Leq(a, b) == a # NaN /\ b # NaN /\ a <= b

Lt(a, b) == a # NaN /\ b # NaN /\ a < b

Gt(a, b) == a # NaN /\ b # NaN /\ a > b

\* a - b and Math.abs(a), NaN when an operand is NaN
Sub(a, b) == IF a = NaN \/ b = NaN THEN NaN ELSE a - b

AbsN(a) == IF a = NaN THEN NaN ELSE Abs(a)

\* the truth value JavaScript gives an optional number in a condition
Truthy(optNumber) == optNumber # <<>> /\ optNumber[1] # 0 /\ optNumber[1] # NaN

\* ------------------------------------------------------------------------
\* Scoring engine
\* ------------------------------------------------------------------------
\* the two fields of an AssessmentMetricResult the scoring engine reads
ScoreInputs == [isCritical : BOOLEAN, pass : BOOLEAN]

ResultLists == UNION {[1..n -> ScoreInputs] : n \in 0..MaxMetrics}

\* score-3 rule weakened: any non-critical failure loses the 3
generateAutomaticScore_strict3(metricResults) ==
    IF Len(metricResults) = 0 THEN 0
    ELSE
      LET IsCrit(m) == m.isCritical
          NonCrit(m) == ~m.isCritical
          CritPass(m) == m.isCritical /\ m.pass
          NonCritPass(m) == ~m.isCritical /\ m.pass
          criticalFailed == Len(SelectSeq(metricResults, IsCrit)) - Len(SelectSeq(metricResults, CritPass))
          nonCriticalFailed == Len(SelectSeq(metricResults, NonCrit)) - Len(SelectSeq(metricResults, NonCritPass))
      IN  IF criticalFailed = 0 /\ nonCriticalFailed < 1 THEN 3
          ELSE IF criticalFailed = 1 \/ (criticalFailed = 0 /\ nonCriticalFailed <= 2) THEN 2
          ELSE IF criticalFailed >= 2 \/ nonCriticalFailed > 2 THEN 1
          ELSE 0

\* score-2 rule widened: "criticalFailed <= 1" for "criticalFailed === 1"
generateAutomaticScore_wide2(metricResults) ==
    IF Len(metricResults) = 0 THEN 0
    ELSE
      LET IsCrit(m) == m.isCritical
          NonCrit(m) == ~m.isCritical
          CritPass(m) == m.isCritical /\ m.pass
          NonCritPass(m) == ~m.isCritical /\ m.pass
          criticalFailed == Len(SelectSeq(metricResults, IsCrit)) - Len(SelectSeq(metricResults, CritPass))
          nonCriticalFailed == Len(SelectSeq(metricResults, NonCrit)) - Len(SelectSeq(metricResults, NonCritPass))
      IN  IF criticalFailed = 0 /\ nonCriticalFailed <= 1 THEN 3
          ELSE IF criticalFailed <= 1 \/ (criticalFailed = 0 /\ nonCriticalFailed <= 2) THEN 2
          ELSE IF criticalFailed >= 2 \/ nonCriticalFailed > 2 THEN 1
          ELSE 0

generateAutomaticScore(metricResults) ==
    IF Len(metricResults) = 0 THEN 0
    ELSE
      LET IsCrit(m) == m.isCritical
          NonCrit(m) == ~m.isCritical
          CritPass(m) == m.isCritical /\ m.pass
          NonCritPass(m) == ~m.isCritical /\ m.pass
          criticalFailed == Len(SelectSeq(metricResults, IsCrit)) - Len(SelectSeq(metricResults, CritPass))
          nonCriticalFailed == Len(SelectSeq(metricResults, NonCrit)) - Len(SelectSeq(metricResults, NonCritPass))
      IN  IF criticalFailed = 0 /\ nonCriticalFailed <= 1 THEN 3
          ELSE IF criticalFailed = 1 \/ (criticalFailed = 0 /\ nonCriticalFailed <= 2) THEN 2
          ELSE IF criticalFailed >= 2 \/ nonCriticalFailed > 2 THEN 1
          ELSE 0

\* one call of generateAutomaticScore on any result list
CallGenerateAutomaticScore ==
    \E rs \in ResultLists :
        /\ gasResults' = rs
        /\ gasScore' = generateAutomaticScore(rs)
        /\ op' = "generateAutomaticScore"
        /\ UNCHANGED <<evalVars, appVars, cardVars, poseVars, stereoVars, analyzerVars, callVars, jumpTestVars,
                 captureVars>>

\* ------------------------------------------------------------------------
\* Test catalog (FMS_TESTS): the fields of each metric definition that the
\* evaluator and the scoring engine read.  No catalog entry sets targetExact
\* or validationCriteria.warningThreshold.
\* ------------------------------------------------------------------------
MetricMax(id, max, tol, critical) ==
    [id |-> id, targetMin |-> <<>>, targetMax |-> <<max * 100>>, targetExact |-> <<>>,
     tolerance |-> tol * 100, warningThreshold |-> <<>>, isCritical |-> critical]

MetricMin(id, min, tol, critical) ==
    [id |-> id, targetMin |-> <<min * 100>>, targetMax |-> <<>>, targetExact |-> <<>>,
     tolerance |-> tol * 100, warningThreshold |-> <<>>, isCritical |-> critical]

MetricMinMax(id, min, max, tol, critical) ==
    [id |-> id, targetMin |-> <<min * 100>>, targetMax |-> <<max * 100>>, targetExact |-> <<>>,
     tolerance |-> tol * 100, warningThreshold |-> <<>>, isCritical |-> critical]

FMS_TESTS ==
    << [id |-> "deep-squat", metrics |-> <<
           MetricMax("knee-valgus-left", 15, 5, TRUE),
           MetricMax("knee-valgus-right", 15, 5, TRUE),
           MetricMin("knee-flexion-depth", 120, 5, TRUE) >>],
       [id |-> "hurdle-step", metrics |-> <<
           MetricMax("pelvic-rotation", 10, 3, TRUE),
           MetricMin("front-knee-flexion", 90, 5, TRUE) >>],
       [id |-> "inline-lunge", metrics |-> <<
           MetricMax("pelvic-tilt", 5, 2, TRUE),
           MetricMin("trail-leg-hip-flexion", 15, 3, TRUE) >>],
       [id |-> "active-straight-leg-raise", metrics |-> <<
           MetricMin("hip-flexion-angle", 70, 5, TRUE),
           MetricMax("pelvic-stability", 5, 2, TRUE) >>],
       [id |-> "trunk-stability-pushup", metrics |-> <<
           MetricMax("trunk-stability", 5, 2, TRUE),
           MetricMax("body-alignment", 3, 1, TRUE) >>],
       [id |-> "rotary-stability", metrics |-> <<
           MetricMax("spinal-rotation", 5, 2, TRUE),
           MetricMax("coordination-timing", 100, 25, FALSE) >>],
       [id |-> "shoulder-mobility", metrics |-> <<
           MetricMin("shoulder-internal-rotation", 70, 5, TRUE),
           MetricMin("shoulder-external-rotation", 90, 5, TRUE),
           MetricMax("bilateral-symmetry", 10, 3, FALSE) >>],
       [id |-> "drop-jump", metrics |-> <<
           MetricMax("knee-valgus-3d-left", 15, 3, TRUE),
           MetricMax("knee-valgus-3d-right", 15, 3, TRUE),
           MetricMax("trunk-lean-sagittal", 15, 5, FALSE),
           MetricMax("trunk-lean-frontal", 10, 3, FALSE),
           MetricMax("bilateral-symmetry", 10, 5, TRUE),
           MetricMax("landing-stability", 50, 15, FALSE),
           MetricMinMax("arm-position-compliance", 35, 55, 10, FALSE) >>] >>

TestIndices == DOMAIN FMS_TESTS

CatalogMetrics ==
    UNION {{FMS_TESTS[t].metrics[i] : i \in DOMAIN FMS_TESTS[t].metrics} : t \in TestIndices}

\* ------------------------------------------------------------------------
\* Metric evaluator: the pass / warning / deviation stage of
\* getDetailedMetricResults, applied to one definition and its actualValue
\* ------------------------------------------------------------------------
\* upper bound made exclusive: "<" for "<="
PassOf_exclusiveMax(metric, actualValue) ==
    IF metric.targetMin # <<>> /\ metric.targetMax # <<>>
    THEN Geq(actualValue, metric.targetMin[1]) /\ Lt(actualValue, metric.targetMax[1])
    ELSE IF metric.targetMin # <<>>
    THEN Geq(actualValue, metric.targetMin[1])
    ELSE IF metric.targetMax # <<>>
    THEN Lt(actualValue, metric.targetMax[1])
    ELSE IF metric.targetExact # <<>>
    THEN Leq(AbsN(Sub(actualValue, metric.targetExact[1])), metric.tolerance)
    ELSE FALSE

PassOf(metric, actualValue) ==
    IF metric.targetMin # <<>> /\ metric.targetMax # <<>>
    THEN Geq(actualValue, metric.targetMin[1]) /\ Leq(actualValue, metric.targetMax[1])
    ELSE IF metric.targetMin # <<>>
    THEN Geq(actualValue, metric.targetMin[1])
    ELSE IF metric.targetMax # <<>>
    THEN Leq(actualValue, metric.targetMax[1])
    ELSE IF metric.targetExact # <<>>
    THEN Leq(AbsN(Sub(actualValue, metric.targetExact[1])), metric.tolerance)
    ELSE FALSE

WarningOf(metric, actualValue, pass) ==
    IF metric.targetMin # <<>> /\ metric.targetMax # <<>>
    THEN /\ Truthy(metric.warningThreshold)
         /\ ~pass
         /\ Geq(actualValue, metric.targetMin[1] - metric.tolerance)
         /\ Leq(actualValue, metric.targetMax[1] + metric.tolerance)
    ELSE IF metric.targetMin # <<>>
    THEN /\ Truthy(metric.warningThreshold)
         /\ ~pass
         /\ Geq(actualValue, metric.targetMin[1] - metric.tolerance)
    ELSE IF metric.targetMax # <<>>
    THEN /\ Truthy(metric.warningThreshold)
         /\ ~pass
         /\ Leq(actualValue, metric.targetMax[1] + metric.tolerance)
    ELSE IF metric.targetExact # <<>>
    THEN ~pass /\ Leq(AbsN(Sub(actualValue, metric.targetExact[1])), metric.tolerance * 2)
    ELSE FALSE

DeviationOf(metric, actualValue) ==
    IF metric.targetExact # <<>>
    THEN AbsN(Sub(actualValue, metric.targetExact[1]))
    ELSE IF metric.targetMin # <<>> /\ Lt(actualValue, metric.targetMin[1])
    THEN metric.targetMin[1] - actualValue
    ELSE IF metric.targetMax # <<>> /\ Gt(actualValue, metric.targetMax[1])
    THEN actualValue - metric.targetMax[1]
    ELSE 0

DeviationDirectionOf(metric, actualValue) ==
    IF metric.targetExact # <<>>
    THEN (IF Gt(actualValue, metric.targetExact[1]) THEN "+" ELSE "-")
    ELSE IF metric.targetMin # <<>> /\ Lt(actualValue, metric.targetMin[1])
    THEN "-"
    ELSE "+"

\* Math.round(confidence), confidence held in thirds of a percent
RoundConfidence(confidence) == (2 * confidence + 3) \div 6

\* the result record pushed for one metric
EvaluateMetric(metric, actualValue, confidence) ==
    LET pass == PassOf(metric, actualValue)
    IN  [metricId |-> metric.id,
         actualValue |-> Round1(actualValue),
         pass |-> pass,
         warning |-> WarningOf(metric, actualValue, pass),
         isCritical |-> metric.isCritical,
         deviation |-> Round1(DeviationOf(metric, actualValue)),
         deviationDirection |-> DeviationDirectionOf(metric, actualValue),
         confidence |-> RoundConfidence(confidence)]

\* definitions of every shape the evaluator distinguishes
GenericMetrics ==
    [id : {"generic"},
     targetMin : {<<>>, <<200>>, <<300>>},
     targetMax : {<<>>, <<300>>, <<400>>},
     targetExact : {<<>>, <<300>>},
     tolerance : {0, 100},
     warningThreshold : {<<>>, <<100>>},
     isCritical : {TRUE}]

Fractions == {0, 5, 50}

GenericActuals == {100 * w + f : w \in 0..6, f \in Fractions} \cup {NaN}

CatalogActuals == {100 * w + f : w \in 0..MaxWhole, f \in Fractions} \cup {NaN}

\* the metric ids getDetailedMetricResults has a formula for; every other id
\* takes the default actualValue 0
KneeValgusIds == {"knee-valgus-left", "knee-valgus-right"}

ComputedIds ==
    KneeValgusIds \cup {"knee-flexion-depth", "trunk-lean", "lr-hip-symmetry", "pelvic-rotation",
                        "front-knee-flexion", "pelvic-tilt", "trail-leg-hip-flexion"}

\* the values the formula of a metric id can produce, among CatalogActuals:
\* |angle - 90| is at most 90 for an angle of 0..180
ActualsOf(id) ==
    IF id \in KneeValgusIds THEN {a \in CatalogActuals : a <= 9000}
    ELSE IF id \in ComputedIds THEN CatalogActuals
    ELSE {0}

\* the stage applied to a catalog definition
EvaluateCatalogMetric ==
    /\ op = "init"
    /\ \E m \in CatalogMetrics : \E a \in ActualsOf(m.id) :
        /\ evMetric' = m
        /\ evActual' = a
        /\ evResult' = EvaluateMetric(m, a, 0)
    /\ op' = "evaluate"
    /\ UNCHANGED <<scoringVars, appVars, cardVars, poseVars, stereoVars, analyzerVars, callVars, jumpTestVars,
                 captureVars>>

\* the stage applied to a definition of any shape
EvaluateGenericMetric ==
    /\ op = "init"
    /\ \E m \in GenericMetrics, a \in GenericActuals :
        /\ evMetric' = m
        /\ evActual' = a
        /\ evResult' = EvaluateMetric(m, a, 0)
    /\ op' = "evaluate"
    /\ UNCHANGED <<scoringVars, appVars, cardVars, poseVars, stereoVars, analyzerVars, callVars, jumpTestVars,
                 captureVars>>

\* ------------------------------------------------------------------------
\* Geometry kernel.  Landmark coordinates are held in tenths of the image
\* size, angles in hundredths of a degree.  Math.acos is taken to the nearest
\* whole degree: ACosThreshold[k] is cos((k - 0.5) degrees), squared, with
\* the sign of the cosine, times 10^6.
\* ------------------------------------------------------------------------
ACosThreshold ==
    <<
       999924, 999315, 998097, 996273, 993844, 990814, 987185, 982963, 978152, 972759,
       966790, 960252, 953154, 945503, 937310, 928584, 919335, 909576, 899318, 888573,
       877355, 865677, 853553, 840999, 828030, 814660, 800908, 786788, 772320, 757519,
       742405, 726995, 711309, 695366, 679184, 662784, 646186, 629410, 612476, 595404,
       578217, 560935, 543578, 526168, 508726, 491274, 473832, 456422, 439065, 421783,
       404596, 387524, 370590, 353814, 337216, 320816, 304634, 288691, 273005, 257595,
       242481, 227680, 213212, 199092, 185340, 171970, 159001, 146447, 134323, 122645,
       111427, 100682, 90424, 80665, 71416, 62690, 54497, 46846, 39748, 33210,
       27241, 21848, 17037, 12815, 9186, 6156, 3727, 1903, 685, 76,
       -76, -685, -1903, -3727, -6156, -9186, -12815, -17037, -21848, -27241,
       -33210, -39748, -46846, -54497, -62690, -71416, -80665, -90424, -100682, -111427,
       -122645, -134323, -146447, -159001, -171970, -185340, -199092, -213212, -227680, -242481,
       -257595, -273005, -288691, -304634, -320816, -337216, -353814, -370590, -387524, -404596,
       -421783, -439065, -456422, -473832, -491274, -508726, -526168, -543578, -560935, -578217,
       -595404, -612476, -629410, -646186, -662784, -679184, -695366, -711309, -726995, -742405,
       -757519, -772320, -786788, -800908, -814660, -828030, -840999, -853553, -865677, -877355,
       -888573, -899318, -909576, -919335, -928584, -937310, -945503, -953154, -960252, -966790,
       -972759, -978152, -982963, -987185, -990814, -993844, -996273, -998097, -999315, -999924
    >>

\* Math.acos(Math.max(-1, Math.min(1, dot / (mag1 * mag2)))) * 180 / Math.PI
\* from the dot product and the squared magnitudes; NaN for 0 / 0
ACosDeg(dot, mag1sq, mag2sq) ==
    IF mag1sq * mag2sq = 0 THEN NaN
    ELSE LET signedSq == (IF dot < 0 THEN -1 ELSE 1) * dot * dot * 1000000
         IN  100 * Cardinality({k \in DOMAIN ACosThreshold :
                                    signedSq < ACosThreshold[k] * mag1sq * mag2sq})

\* Math.atan2(y, x) * 180 / Math.PI
ATan2Deg(y, x) ==
    IF x = 0 /\ y = 0 THEN 0
    ELSE LET a == ACosDeg(x, x * x + y * y, 1)
         IN  IF y < 0 THEN -a ELSE a

calculateAngle(point1, point2, point3) ==
    LET v1x == point1.x - point2.x
        v1y == point1.y - point2.y
        v2x == point3.x - point2.x
        v2y == point3.y - point2.y
    IN  ACosDeg(v1x * v2x + v1y * v2y, v1x * v1x + v1y * v1y, v2x * v2x + v2y * v2y)

\* ------------------------------------------------------------------------
\* Landmark frames.  A frame is the sequence of its entries, JavaScript index
\* i at position i + 1; an entry that is undefined has present = FALSE; a
\* visibility that is undefined is <<>>.  The z coordinate, which neither
\* calculateAngle nor the metric formulas read, is left out.
\* ------------------------------------------------------------------------
NoLandmark == [present |-> FALSE, x |-> 0, y |-> 0, visibility |-> <<>>]

\* landmarks[i] is truthy
Has(frame, i) == i + 1 \in DOMAIN frame /\ frame[i + 1].present

\* landmarks[i]
At(frame, i) == IF i + 1 \in DOMAIN frame THEN frame[i + 1] ELSE NoLandmark

\* lm.visibility > 0.5 (false for an undefined visibility)
VisibleGate_atLeast(lm) == lm.visibility # <<>> /\ lm.visibility[1] >= 50

VisibleGate(lm) == lm.visibility # <<>> /\ lm.visibility[1] > 50

\* lm.visibility || 0
VisOr0(lm) == IF lm.visibility = <<>> THEN 0 ELSE lm.visibility[1]

\* the landmarks the joint angle engine and the metric formulas read
JointIdx == {11, 12, 13, 14, 15, 16, 23, 24, 25, 26, 27, 28, 31, 32}

MetricIdx == {11, 12, 23, 24, 25, 26, 27, 28}

\* body poses, as the <<x, y>> of each landmark the analysis reads
StandPose ==
    [i \in 0..32 |->
        CASE i = 11 -> <<6, 2>> [] i = 12 -> <<4, 2>>
          [] i = 13 -> <<7, 4>> [] i = 14 -> <<3, 4>>
          [] i = 15 -> <<7, 6>> [] i = 16 -> <<3, 6>>
          [] i = 23 -> <<6, 6>> [] i = 24 -> <<4, 6>>
          [] i = 25 -> <<6, 8>> [] i = 26 -> <<4, 8>>
          [] i = 27 -> <<6, 10>> [] i = 28 -> <<4, 10>>
          [] i = 31 -> <<7, 10>> [] i = 32 -> <<3, 10>>
          [] OTHER -> <<5, 1>>]

SquatPose ==
    [i \in 0..32 |->
        CASE i = 11 -> <<6, 4>> [] i = 12 -> <<4, 3>>
          [] i = 13 -> <<7, 2>> [] i = 14 -> <<3, 2>>
          [] i = 15 -> <<7, 0>> [] i = 16 -> <<3, 0>>
          [] i = 23 -> <<6, 7>> [] i = 24 -> <<4, 7>>
          [] i = 25 -> <<8, 8>> [] i = 26 -> <<3, 9>>
          [] i = 27 -> <<6, 10>> [] i = 28 -> <<4, 10>>
          [] i = 31 -> <<7, 10>> [] i = 32 -> <<3, 10>>
          [] OTHER -> <<5, 1>>]

Poses == {StandPose, SquatPose}

\* what a landmark that is not fully visible looks like
LowKinds == {"missing", "undefined", "50", "51"}

LandmarkOf(pose, i, kind) ==
    IF kind = "missing" THEN NoLandmark
    ELSE [present |-> TRUE, x |-> pose[i][1], y |-> pose[i][2],
          visibility |-> CASE kind = "undefined" -> <<>>
                           [] kind = "50" -> <<50>>
                           [] kind = "51" -> <<51>>
                           [] OTHER -> <<100>>]

\* the frame of n landmarks in a pose, the landmarks in DOMAIN low as low says
FrameOf(pose, n, low) ==
    [k \in 1..n |-> LandmarkOf(pose, k - 1, IF k - 1 \in DOMAIN low THEN low[k - 1] ELSE "full")]

\* the ways at most MaxLow landmarks among idx can be low
LowChoices(idx) ==
    UNION {[S -> LowKinds] : S \in {T \in SUBSET idx : Cardinality(T) <= MaxLow}}

\* frame lengths: a full frame, and one cut short after the knees
FrameLengths == {33, 27}

\* ------------------------------------------------------------------------
\* Joint angle engine: calculateAllJointAngles.  The source repeats one
\* block per joint; Joints lists, in the source's order, the three landmark
\* indices of each block and its target band (whole degrees).
\* ------------------------------------------------------------------------
Joint(name, p1, p2, p3, targetMin, targetMax) ==
    [name |-> name, p1 |-> p1, p2 |-> p2, p3 |-> p3,
     targetMin |-> targetMin * 100, targetMax |-> targetMax * 100]

Joints ==
    << Joint("Left Shoulder", 12, 11, 13, 90, 180),
       Joint("Right Shoulder", 11, 12, 14, 90, 180),
       Joint("Left Elbow", 11, 13, 15, 90, 180),
       Joint("Right Elbow", 12, 14, 16, 90, 180),
       Joint("Left Hip", 11, 23, 25, 90, 120),
       Joint("Right Hip", 12, 24, 26, 90, 120),
       Joint("Left Knee", 23, 25, 27, 90, 130),
       Joint("Right Knee", 24, 26, 28, 90, 130),
       Joint("Left Ankle", 25, 27, 31, 85, 95),
       Joint("Right Ankle", 26, 28, 32, 85, 95),
       Joint("Torso Alignment", 11, 23, 24, 85, 95) >>

\* getConfidence, in thirds of a percent: Math.min(avgVisibility * 100, 100)
getConfidence(p1, p2, p3) == Min2(VisOr0(p1) + VisOr0(p2) + VisOr0(p3), 300)

\* the condition of one joint's block, with ">= 0.5" for "> 0.5"
JointReported_atLeast(frame, j) ==
    /\ Has(frame, j.p1) /\ Has(frame, j.p2) /\ Has(frame, j.p3)
    /\ VisibleGate_atLeast(At(frame, j.p1))
    /\ VisibleGate_atLeast(At(frame, j.p2))
    /\ VisibleGate_atLeast(At(frame, j.p3))

\* the condition of one joint's block
JointReported(frame, j) ==
    /\ Has(frame, j.p1) /\ Has(frame, j.p2) /\ Has(frame, j.p3)
    /\ VisibleGate(At(frame, j.p1))
    /\ VisibleGate(At(frame, j.p2))
    /\ VisibleGate(At(frame, j.p3))

\* the JointAngle one block pushes
JointAngleOf(frame, j) ==
    LET a == At(frame, j.p1)
        b == At(frame, j.p2)
        c == At(frame, j.p3)
        angle == calculateAngle(a, b, c)
    IN  [name |-> j.name,
         angle |-> angle,
         normal |-> Geq(angle, j.targetMin) /\ Leq(angle, j.targetMax),
         warning |-> \/ Geq(angle, j.targetMin - 500) /\ Lt(angle, j.targetMin)
                     \/ Gt(angle, j.targetMax) /\ Leq(angle, j.targetMax + 500),
         points |-> <<a, b, c>>,
         targetMin |-> j.targetMin,
         targetMax |-> j.targetMax,
         confidence |-> getConfidence(a, b, c),
         deviation |-> IF Lt(angle, j.targetMin) THEN j.targetMin - angle
                       ELSE IF Gt(angle, j.targetMax) THEN angle - j.targetMax
                       ELSE 0,
         deviationDirection |-> IF Lt(angle, j.targetMin) THEN "-" ELSE "+"]

calculateAllJointAngles(frame) ==
    IF Len(frame) < 33 THEN <<>>
    ELSE LET RECURSIVE Blocks(_)
             Blocks(k) ==
                IF k = 0 THEN <<>>
                ELSE IF JointReported(frame, Joints[k])
                THEN Append(Blocks(k - 1), JointAngleOf(frame, Joints[k]))
                ELSE Blocks(k - 1)
         IN  Blocks(Len(Joints))

\* jointAngles.find(a => a.name === name): <<>> when none, else <<joint angle>>
FindAngle(angles, name) ==
    LET Named(a) == a.name = name
        found == SelectSeq(angles, Named)
    IN  IF found = <<>> THEN <<>> ELSE <<found[1]>>

\* x || 0 for a number x
Or0(x) == IF x = NaN THEN 0 ELSE x

\* ------------------------------------------------------------------------
\* Metric evaluator: the formula stage of getDetailedMetricResults.
\* ActualAndConfidence is <<actualValue, confidence>> of one metric id, the
\* confidence in thirds of a percent.
\* ------------------------------------------------------------------------
\* a || b for two optional joint angles
OrElse(a, b) == IF a # <<>> THEN a ELSE b

\* an evaluator that has a formula for hip-flexion-angle
ActualAndConfidence_hipFlexion(id, frame, angles) ==
    CASE id = "hip-flexion-angle" ->
            LET hipAngle == OrElse(FindAngle(angles, "Left Hip"), FindAngle(angles, "Right Hip"))
            IN  IF hipAngle = <<>> THEN <<0, 0>>
                ELSE <<Or0(hipAngle[1].angle), hipAngle[1].confidence>>
      [] OTHER -> <<0, 0>>

ActualAndConfidence(id, frame, angles) ==
    CASE id = "knee-valgus-left" ->
            LET leftKneeAngle == FindAngle(angles, "Left Knee")
            IN  IF leftKneeAngle = <<>> THEN <<0, 0>>
                ELSE <<AbsN(Sub(leftKneeAngle[1].angle, 9000)), leftKneeAngle[1].confidence>>
      [] id = "knee-valgus-right" ->
            LET rightKneeAngle == FindAngle(angles, "Right Knee")
            IN  IF rightKneeAngle = <<>> THEN <<0, 0>>
                ELSE <<AbsN(Sub(rightKneeAngle[1].angle, 9000)), rightKneeAngle[1].confidence>>
      [] id = "knee-flexion-depth" ->
            LET leftKnee == FindAngle(angles, "Left Knee")
                rightKnee == FindAngle(angles, "Right Knee")
                leftAngle == IF leftKnee = <<>> THEN 0 ELSE Or0(leftKnee[1].angle)
                rightAngle == IF rightKnee = <<>> THEN 0 ELSE Or0(rightKnee[1].angle)
                leftConf == IF leftKnee = <<>> THEN 0 ELSE leftKnee[1].confidence
                rightConf == IF rightKnee = <<>> THEN 0 ELSE rightKnee[1].confidence
            IN  <<Min2(leftAngle, rightAngle), Min2(leftConf, rightConf)>>
      [] id = "trunk-lean" ->
            LET torsoAlignment == FindAngle(angles, "Torso Alignment")
            IN  IF torsoAlignment = <<>> THEN <<0, 0>>
                ELSE <<AbsN(Sub(torsoAlignment[1].angle, 9000)), torsoAlignment[1].confidence>>
      [] id = "lr-hip-symmetry" ->
            IF Has(frame, 23) /\ Has(frame, 24)
            THEN <<Abs(At(frame, 23).y - At(frame, 24).y) * 1000,
                   Min2(VisOr0(At(frame, 23)), VisOr0(At(frame, 24))) * 3>>
            ELSE <<0, 0>>
      [] id = "pelvic-rotation" ->
            IF Has(frame, 23) /\ Has(frame, 24)
            THEN <<Abs(ATan2Deg(At(frame, 24).y - At(frame, 23).y,
                                At(frame, 24).x - At(frame, 23).x)),
                   Min2(VisOr0(At(frame, 23)), VisOr0(At(frame, 24))) * 3>>
            ELSE <<0, 0>>
      [] id = "front-knee-flexion" ->
            LET frontKnee == OrElse(FindAngle(angles, "Left Knee"), FindAngle(angles, "Right Knee"))
            IN  IF frontKnee = <<>> THEN <<0, 0>>
                ELSE <<Or0(frontKnee[1].angle), frontKnee[1].confidence>>
      [] id = "pelvic-tilt" ->
            \* the midpoints are held doubled, which leaves atan2 unchanged
            IF Has(frame, 11) /\ Has(frame, 12) /\ Has(frame, 23) /\ Has(frame, 24)
            THEN LET shoulderX2 == At(frame, 11).x + At(frame, 12).x
                     shoulderY2 == At(frame, 11).y + At(frame, 12).y
                     hipX2 == At(frame, 23).x + At(frame, 24).x
                     hipY2 == At(frame, 23).y + At(frame, 24).y
                     tiltAngle == ATan2Deg(shoulderY2 - hipY2, shoulderX2 - hipX2)
                 IN  <<Abs(tiltAngle - 9000),
                       Min2(Min2(VisOr0(At(frame, 11)), VisOr0(At(frame, 12))),
                            Min2(VisOr0(At(frame, 23)), VisOr0(At(frame, 24)))) * 3>>
            ELSE <<0, 0>>
      [] id = "trail-leg-hip-flexion" ->
            LET hipAngle == OrElse(FindAngle(angles, "Left Hip"), FindAngle(angles, "Right Hip"))
            IN  IF hipAngle = <<>> THEN <<0, 0>>
                ELSE <<Or0(hipAngle[1].angle), hipAngle[1].confidence>>
      [] OTHER -> <<0, 0>>

\* getDetailedMetricResults for the test at index t of FMS_TESTS
getDetailedMetricResults(t, frame) ==
    LET angles == calculateAllJointAngles(frame)
    IN  [i \in DOMAIN FMS_TESTS[t].metrics |->
            LET metric == FMS_TESTS[t].metrics[i]
                ac == ActualAndConfidence(metric.id, frame, angles)
            IN  EvaluateMetric(metric, ac[1], ac[2])]

\* one call of calculateAllJointAngles on a frame
CallCalculateAllJointAngles ==
    /\ op = "init"
    /\ \E pose \in Poses, n \in FrameLengths, low \in LowChoices(JointIdx) :
         LET frame == FrameOf(pose, n, low)
         IN  /\ landmarks' = frame
             /\ jointAngles' = calculateAllJointAngles(frame)
    /\ op' = "calculateAllJointAngles"
    /\ UNCHANGED <<metricTest, results>>
    /\ UNCHANGED <<scoringVars, evalVars, appVars, cardVars, stereoVars, analyzerVars, callVars, jumpTestVars,
                 captureVars>>

\* one call of getDetailedMetricResults on a catalog test and a frame
CallGetDetailedMetricResults ==
    /\ op = "init"
    /\ \E t \in TestIndices, pose \in Poses, n \in FrameLengths, low \in LowChoices(MetricIdx) :
         LET frame == FrameOf(pose, n, low)
         IN  /\ landmarks' = frame
             /\ jointAngles' = calculateAllJointAngles(frame)
             /\ metricTest' = t
             /\ results' = getDetailedMetricResults(t, frame)
    /\ op' = "getDetailedMetricResults"
    /\ UNCHANGED <<scoringVars, evalVars, appVars, cardVars, stereoVars, analyzerVars, callVars, jumpTestVars,
                 captureVars>>

\* ------------------------------------------------------------------------
\* Score card (ScoreCard.tsx) and the App state behind it.  An
\* AssessmentScore is held without its timestamp, notes, metricResults and
\* clinicianId; an audit-trail change is held without its timestamp.
\* ------------------------------------------------------------------------
\* the tests the clinician moves between
CardTests == {1, 6}

\* overrideReason: undefined
NoReason == "<undefined>"

PainReason == "Pain reported during movement"

TypedReasons == {"clinical judgement"}

\* assessmentScores.findIndex(s => s.testId === testId): 0 when none
FindIndex(scores, testId) ==
    IF \E i \in DOMAIN scores : scores[i].testId = testId
    THEN CHOOSE i \in DOMAIN scores :
            /\ scores[i].testId = testId
            /\ \A j \in DOMAIN scores : scores[j].testId = testId => i <= j
    ELSE 0

\* the number of saves made so far
TotalChanges(scores) ==
    LET RECURSIVE Sum(_)
        Sum(i) == IF i = 0 THEN 0 ELSE Len(scores[i].auditTrail.changes) + Sum(i - 1)
    IN  Sum(Len(scores))

\* ScoreCard useEffect [testId, assessmentScores, automaticScore]: the card
\* state <<manualScore, painReported, overrideReason>> it sets
CardEffect(testId, scores, autoScore) ==
    LET i == FindIndex(scores, testId)
    IN  IF i # 0
        THEN <<scores[i].score,
               scores[i].painReported,
               IF scores[i].overrideReason = NoReason THEN "" ELSE scores[i].overrideReason>>
        ELSE <<autoScore, FALSE, "">>

\* the audit entry records the typed override reason even when pain is set
BuildScore_reasonNotPain(testId, autoScore, manual, pain, reason, scores) ==
    LET i == FindIndex(scores, testId)
        isManualOverride == manual # autoScore
        change(from) == [from |-> from,
                         to |-> IF pain THEN 0 ELSE manual,
                         reason |-> reason]
    IN  [testId |-> testId,
         score |-> IF pain THEN 0 ELSE manual,
         automaticScore |-> autoScore,
         manualOverride |-> isManualOverride,
         overrideReason |-> IF isManualOverride THEN reason ELSE NoReason,
         painReported |-> pain,
         auditTrail |->
            [originalScore |-> autoScore,
             changes |-> IF i # 0
                         THEN Append(scores[i].auditTrail.changes, change(scores[i].score))
                         ELSE <<change(autoScore)>>]]

BuildScore_fromAutomatic(testId, autoScore, manual, pain, reason, scores) ==
    LET i == FindIndex(scores, testId)
        isManualOverride == manual # autoScore
        change(from) == [from |-> from,
                         to |-> IF pain THEN 0 ELSE manual,
                         reason |-> IF pain THEN "Pain reported" ELSE reason]
    IN  [testId |-> testId,
         score |-> IF pain THEN 0 ELSE manual,
         automaticScore |-> autoScore,
         manualOverride |-> isManualOverride,
         overrideReason |-> IF isManualOverride THEN reason ELSE NoReason,
         painReported |-> pain,
         auditTrail |->
            [originalScore |-> autoScore,
             changes |-> IF i # 0
                         THEN Append(scores[i].auditTrail.changes, change(autoScore))
                         ELSE <<change(autoScore)>>]]

\* handleScoreUpdate: the AssessmentScore it builds
BuildScore(testId, autoScore, manual, pain, reason, scores) ==
    LET i == FindIndex(scores, testId)
        isManualOverride == manual # autoScore
        change(from) == [from |-> from,
                         to |-> IF pain THEN 0 ELSE manual,
                         reason |-> IF pain THEN "Pain reported" ELSE reason]
    IN  [testId |-> testId,
         score |-> IF pain THEN 0 ELSE manual,
         automaticScore |-> autoScore,
         manualOverride |-> isManualOverride,
         overrideReason |-> IF isManualOverride THEN reason ELSE NoReason,
         painReported |-> pain,
         auditTrail |->
            [originalScore |-> autoScore,
             changes |-> IF i # 0
                         THEN Append(scores[i].auditTrail.changes, change(scores[i].score))
                         ELSE <<change(autoScore)>>]]

\* App.handleScoreChange: the new assessmentScores
handleScoreChange(scores, score, autoScore) ==
    LET enhancedScore == [score EXCEPT !.automaticScore = autoScore]
        existing == FindIndex(scores, score.testId)
    IN  IF existing # 0
        THEN [scores EXCEPT ![existing] = enhancedScore]
        ELSE Append(scores, enhancedScore)

\* the pass flags a frame can give the metrics of a test
MetricResultsOf(t) ==
    {[i \in DOMAIN FMS_TESTS[t].metrics |->
        [isCritical |-> FMS_TESTS[t].metrics[i].isCritical, pass |-> passes[i]]] :
     passes \in [DOMAIN FMS_TESTS[t].metrics -> BOOLEAN]}

\* App.handlePoseResults and the App effect on [currentPose, currentTest]:
\* a new automatic score; the card effect runs when the score changed
HandlePoseResults ==
    /\ \E metrics \in MetricResultsOf(currentTest) :
         LET score == generateAutomaticScore(metrics)
             effect == CardEffect(FMS_TESTS[currentTest].id, assessmentScores, score)
         IN  /\ automaticScore' = score
             /\ IF score # automaticScore
                THEN /\ manualScore' = effect[1]
                     /\ painReported' = effect[2]
                     /\ overrideReason' = effect[3]
                ELSE UNCHANGED <<manualScore, painReported, overrideReason>>
    /\ UNCHANGED op
    /\ UNCHANGED <<currentTest, assessmentScores, isEditing>>
    /\ UNCHANGED <<scoringVars, evalVars, poseVars, stereoVars, analyzerVars, callVars, jumpTestVars,
                 captureVars>>

\* App.handleTestChange to another test: the card effect runs
HandleTestChange ==
    /\ \E t \in CardTests \ {currentTest} :
         LET effect == CardEffect(FMS_TESTS[t].id, assessmentScores, automaticScore)
         IN  /\ currentTest' = t
             /\ manualScore' = effect[1]
             /\ painReported' = effect[2]
             /\ overrideReason' = effect[3]
    /\ UNCHANGED op
    /\ UNCHANGED <<automaticScore, assessmentScores, isEditing>>
    /\ UNCHANGED <<scoringVars, evalVars, poseVars, stereoVars, analyzerVars, callVars, jumpTestVars,
                 captureVars>>

\* the edit button
StartEditing ==
    /\ ~isEditing
    /\ isEditing' = TRUE
    /\ UNCHANGED op
    /\ UNCHANGED <<manualScore, painReported, overrideReason>>
    /\ UNCHANGED <<scoringVars, evalVars, appVars, poseVars, stereoVars, analyzerVars, callVars, jumpTestVars,
                 captureVars>>

\* one of the score buttons 0..3
SelectScore ==
    /\ isEditing
    /\ \E score \in 0..3 :
         /\ manualScore' = score
         /\ IF score = 0
            THEN painReported' = TRUE /\ overrideReason' = PainReason
            ELSE IF painReported
            THEN painReported' = FALSE /\ overrideReason' = ""
            ELSE UNCHANGED <<painReported, overrideReason>>
    /\ UNCHANGED op
    /\ UNCHANGED isEditing
    /\ UNCHANGED <<scoringVars, evalVars, appVars, poseVars, stereoVars, analyzerVars, callVars, jumpTestVars,
                 captureVars>>

\* the pain checkbox
HandlePainToggle ==
    /\ isEditing
    /\ painReported' = ~painReported
    /\ IF ~painReported
       THEN manualScore' = 0 /\ overrideReason' = PainReason
       ELSE manualScore' = automaticScore /\ overrideReason' = ""
    /\ UNCHANGED op
    /\ UNCHANGED isEditing
    /\ UNCHANGED <<scoringVars, evalVars, appVars, poseVars, stereoVars, analyzerVars, callVars, jumpTestVars,
                 captureVars>>

\* the override-reason input, shown for a manual score without pain
TypeOverrideReason ==
    /\ isEditing
    /\ manualScore # automaticScore
    /\ ~painReported
    /\ \E text \in TypedReasons : overrideReason' = text
    /\ UNCHANGED op
    /\ UNCHANGED <<manualScore, isEditing, painReported>>
    /\ UNCHANGED <<scoringVars, evalVars, appVars, poseVars, stereoVars, analyzerVars, callVars, jumpTestVars,
                 captureVars>>

\* the save button: handleScoreUpdate, App.handleScoreChange, and the card
\* effect that the new assessmentScores triggers
HandleScoreUpdate ==
    /\ isEditing
    /\ TotalChanges(assessmentScores) < MaxSaves
    /\ LET testId == FMS_TESTS[currentTest].id
           score == BuildScore(testId, automaticScore, manualScore, painReported,
                               overrideReason, assessmentScores)
           scores == handleScoreChange(assessmentScores, score, automaticScore)
           effect == CardEffect(testId, scores, automaticScore)
       IN  /\ assessmentScores' = scores
           /\ manualScore' = effect[1]
           /\ painReported' = effect[2]
           /\ overrideReason' = effect[3]
    /\ isEditing' = FALSE
    /\ UNCHANGED op
    /\ UNCHANGED <<currentTest, automaticScore>>
    /\ UNCHANGED <<scoringVars, evalVars, poseVars, stereoVars, analyzerVars, callVars, jumpTestVars,
                 captureVars>>

\* ------------------------------------------------------------------------
\* Initial state and specifications
\* ------------------------------------------------------------------------
\* ------------------------------------------------------------------------
\* Pose3DProcessor (utils/pose3dProcessor).  Matrices are sequences of rows,
\* JavaScript index i at position i + 1.  A Vector3D is held as the exact
\* fraction x/d, y/d, z/d over one positive denominator d, so that the
\* least-squares solution and the limb-length ratio are computed without
\* rounding; applySmoothingFilter turns it into whole thousandths.
\* ------------------------------------------------------------------------
ImageWidth == 1920

ImageHeight == 1080

MaxProcessingTimes == 30

\* a StereoCalibration of two parallel cameras: focal length 1, principal
\* point 0, camera 2 shifted by the baseline along x
Baseline == 2

Calibration(isCalibrated) ==
    [camera1 |-> << <<1, 0, 0, 0>>, <<0, 1, 0, 0>>, <<0, 0, 1, 0>> >>,
     camera2 |-> << <<1, 0, 0, -Baseline>>, <<0, 1, 0, 0>>, <<0, 0, 1, 0>> >>,
     baseline |-> Baseline,
     isCalibrated |-> isCalibrated]

GCD(a, b) ==
    LET RECURSIVE G(_, _)
        G(m, n) == IF n = 0 THEN m ELSE G(n, m % n)
    IN  G(Abs(a), Abs(b))

\* the Vector3D nx/dd, ny/dd, nz/dd (dd # 0) in lowest terms
Vec(nx, ny, nz, dd) ==
    LET g == GCD(GCD(nx, ny), GCD(nz, dd))
        sg == IF dd < 0 THEN -g ELSE g
    IN  [x |-> nx \div sg, y |-> ny \div sg, z |-> nz \div sg, d |-> dd \div sg]

ZeroVec == [x |-> 0, y |-> 0, z |-> 0, d |-> 1]

NaNVec == [x |-> NaN, y |-> NaN, z |-> NaN, d |-> 1]

Dot(u, v) ==
    LET RECURSIVE D(_)
        D(k) == IF k = 0 THEN 0 ELSE D(k - 1) + u[k] * v[k]
    IN  D(Len(u))

\* The sequences below are built entry by entry, as the source's loops and
\* maps build their arrays.
transpose(matrix) ==
    LET RECURSIVE Column(_, _)
        Column(i, r) == IF r = 0 THEN <<>> ELSE Append(Column(i, r - 1), matrix[r][i])
        RECURSIVE Columns(_)
        Columns(i) == IF i = 0 THEN <<>>
                      ELSE Append(Columns(i - 1), Column(i, Len(matrix)))
    IN  Columns(Len(matrix[1]))

multiplyMatrices(a, b) ==
    LET bt == transpose(b)
        RECURSIVE Row(_, _)
        Row(i, j) == IF j = 0 THEN <<>> ELSE Append(Row(i, j - 1), Dot(a[i], bt[j]))
        RECURSIVE Rows(_)
        Rows(i) == IF i = 0 THEN <<>> ELSE Append(Rows(i - 1), Row(i, Len(bt)))
    IN  Rows(Len(a))

multiplyMatrixVector(matrix, vector) ==
    LET RECURSIVE Rows(_)
        Rows(i) == IF i = 0 THEN <<>> ELSE Append(Rows(i - 1), Dot(matrix[i], vector))
    IN  Rows(Len(matrix))

determinant3x3(matrix) ==
    matrix[1][1] * (matrix[2][2] * matrix[3][3] - matrix[2][3] * matrix[3][2]) -
    matrix[1][2] * (matrix[2][1] * matrix[3][3] - matrix[2][3] * matrix[3][1]) +
    matrix[1][3] * (matrix[2][1] * matrix[3][2] - matrix[2][2] * matrix[3][1])

\* invert3x3: <<>> when it throws 'Matrix is singular'; otherwise the
\* numerators of the inverse's entries and their common divisor det.  The
\* entries are whole numbers here, so |det| < 1e-10 is det = 0.
invert3x3(matrix) ==
    LET det == determinant3x3(matrix)
    IN  IF Abs(det) < 1 THEN <<>>
        ELSE << [num |->
                  << << matrix[2][2] * matrix[3][3] - matrix[2][3] * matrix[3][2],
                        matrix[1][3] * matrix[3][2] - matrix[1][2] * matrix[3][3],
                        matrix[1][2] * matrix[2][3] - matrix[1][3] * matrix[2][2] >>,
                     << matrix[2][3] * matrix[3][1] - matrix[2][1] * matrix[3][3],
                        matrix[1][1] * matrix[3][3] - matrix[1][3] * matrix[3][1],
                        matrix[1][3] * matrix[2][1] - matrix[1][1] * matrix[2][3] >>,
                     << matrix[2][1] * matrix[3][2] - matrix[2][2] * matrix[3][1],
                        matrix[1][2] * matrix[3][1] - matrix[1][1] * matrix[3][2],
                        matrix[1][1] * matrix[2][2] - matrix[1][2] * matrix[2][1] >> >>,
                 det |-> det] >>

\* solveLeastSquares: <<>> when invert3x3 throws, else <<the solution>>
solveLeastSquares(A, b) ==
    LET transposed == transpose(A)
        AtA == multiplyMatrices(transposed, A)
        Atb == multiplyMatrixVector(transposed, b)
        invAtA == invert3x3(AtA)
    IN  IF invAtA = <<>> THEN <<>>
        ELSE LET n == multiplyMatrixVector(invAtA[1].num, Atb)
             IN  << Vec(n[1], n[2], n[3], invAtA[1].det) >>

\* triangulatePoint for pixel coordinates p1, p2: <<>> when it throws
triangulatePoint(calib, p1, p2) ==
    LET P1 == calib.camera1
        P2 == calib.camera2
        A == << << p1.x * P1[3][1] - P1[1][1], p1.x * P1[3][2] - P1[1][2], p1.x * P1[3][3] - P1[1][3] >>,
                << p1.y * P1[3][1] - P1[2][1], p1.y * P1[3][2] - P1[2][2], p1.y * P1[3][3] - P1[2][3] >>,
                << p2.x * P2[3][1] - P2[1][1], p2.x * P2[3][2] - P2[1][2], p2.x * P2[3][3] - P2[1][3] >>,
                << p2.y * P2[3][1] - P2[2][1], p2.y * P2[3][2] - P2[2][2], p2.y * P2[3][3] - P2[2][3] >> >>
        b == << P1[1][4] - p1.x * P1[3][4],
                P1[2][4] - p1.y * P1[3][4],
                P2[1][4] - p2.x * P2[3][4],
                P2[2][4] - p2.y * P2[3][4] >>
    IN  solveLeastSquares(A, b)

\* lm.visibility < 0.5 (false for an undefined visibility)
LowVisibility(lm) == lm.visibility # <<>> /\ lm.visibility[1] < 50

\* a PoseKeypoint holds x in 1920ths and y in 1080ths of the image
ToPixels(lm) ==
    [x |-> (lm.x * ImageWidth) \div ImageWidth, y |-> (lm.y * ImageHeight) \div ImageHeight]

\* the body of the loop of triangulatePoints for index i (position i + 1):
\* <<>> when triangulatePoint throws, else <<the point pushed>>
TriangulateAt(calib, landmarks1, landmarks2, k) ==
    LET lm1 == landmarks1[k]
        lm2 == landmarks2[k]
    IN  IF LowVisibility(lm1) \/ LowVisibility(lm2) THEN <<ZeroVec>>
        ELSE triangulatePoint(calib, ToPixels(lm1), ToPixels(lm2))

\* triangulatePoints: <<>> when a point's triangulation throws, else
\* <<points3D>>
triangulatePoints(calib, landmarks1, landmarks2) ==
    LET RECURSIVE Loop(_)
        Loop(k) ==
            IF k = 0 THEN << <<>> >>
            ELSE LET before == Loop(k - 1)
                     point3D == TriangulateAt(calib, landmarks1, landmarks2, k)
                 IN  IF before = <<>> \/ point3D = <<>> THEN <<>>
                     ELSE << Append(before[1], point3D[1]) >>
    IN  Loop(Min2(Len(landmarks1), Len(landmarks2)))

\* distance3D squared, as <<numerator, denominator>>
DistanceSq(p1, p2) ==
    << (p1.x * p2.d - p2.x * p1.d) * (p1.x * p2.d - p2.x * p1.d)
       + (p1.y * p2.d - p2.y * p1.d) * (p1.y * p2.d - p2.y * p1.d)
       + (p1.z * p2.d - p2.z * p1.d) * (p1.z * p2.d - p2.z * p1.d),
       (p1.d * p2.d) * (p1.d * p2.d) >>

\* Math.abs(thighLength / shankLength - 1.1) > 0.3, on the squared lengths:
\* the ratio is above 1.4 or below 0.8; x/0 is Infinity and 0/0 is NaN
RatioOutOfRange(thighSq, shankSq) ==
    IF shankSq[1] = 0 THEN thighSq[1] > 0
    ELSE LET l == 100 * thighSq[1] * shankSq[2]
             r == thighSq[2] * shankSq[1]
         IN  l > 196 * r \/ l < 64 * r

\* adjustKneePosition with targetRatio 1.1: the point 1.1 / 2.1 of the way
\* from hip to ankle; 0/0 when hip and ankle coincide
adjustKneePosition(hip, ankle) ==
    IF DistanceSq(hip, ankle)[1] = 0 THEN NaNVec
    ELSE Vec(10 * hip.x * ankle.d + 11 * ankle.x * hip.d,
             10 * hip.y * ankle.d + 11 * ankle.y * hip.d,
             10 * hip.z * ankle.d + 11 * ankle.z * hip.d,
             21 * hip.d * ankle.d)

\* the entry of index i after applyBiomechanicalConstraints.  The loop
\* rewrites the knees only and reads hips and ankles only, so every entry
\* it reads is still the one of the list it was given.
ConstrainedAt(points, i) ==
    IF i \in {25, 26}
    THEN LET hipAt == IF i = 25 THEN 23 ELSE 24
             ankleAt == IF i = 25 THEN 27 ELSE 28
         IN  IF ankleAt + 1 \in DOMAIN points
                /\ RatioOutOfRange(DistanceSq(points[hipAt + 1], points[i + 1]),
                                   DistanceSq(points[i + 1], points[ankleAt + 1]))
             THEN adjustKneePosition(points[hipAt + 1], points[ankleAt + 1])
             ELSE points[i + 1]
    ELSE points[i + 1]

applyBiomechanicalConstraints(points) ==
    LET RECURSIVE Loop(_)
        Loop(k) == IF k = 0 THEN <<>>
                   ELSE Append(Loop(k - 1), ConstrainedAt(points, k - 1))
    IN  Loop(Len(points))

\* Math.round(v * 1000) / 1000 of the fraction n/d, in thousandths
Round3(n, d) == IF n = NaN THEN NaN ELSE (2000 * n + d) \div (2 * d)

applySmoothingFilter(points) ==
    LET RECURSIVE Map(_)
        Map(k) == IF k = 0 THEN <<>>
                  ELSE Append(Map(k - 1),
                              [x |-> Round3(points[k].x, points[k].d),
                               y |-> Round3(points[k].y, points[k].d),
                               z |-> Round3(points[k].z, points[k].d)])
    IN  Map(Len(points))

\* Math.min(triangulationAngle / 30, 1) in millionths.  The angle is
\* atan(disparity / 1000) in degrees; for the disparities of a few pixels
\* used here atan(t) = t to six places, so the quotient is
\* disparity * 180 / (1000 * 30 * pi) = disparity * 0.001909859
GeometricConfidence(lm1, lm2) ==
    LET disparity == (Abs(lm1.x - lm2.x) * ImageWidth) \div ImageWidth
    IN  IF disparity < 1 THEN 0
        ELSE Min2((disparity * 1909859) \div 1000, 1000000)

\* calculateTriangulationConfidence, in millionths
calculateTriangulationConfidence(landmarks1, landmarks2) ==
    LET Conf(frame, k) == IF k \in DOMAIN frame THEN VisOr0(frame[k]) ELSE 0
        Valid(k) == Conf(landmarks1, k) > 50 /\ Conf(landmarks2, k) > 50
        Term(k) == ((Conf(landmarks1, k) + Conf(landmarks2, k))
                        * GeometricConfidence(landmarks1[k], landmarks2[k])) \div 200
        RECURSIVE Total(_)
        Total(k) == IF k = 0 THEN 0
                    ELSE Total(k - 1) + (IF Valid(k) THEN Term(k) ELSE 0)
        validPoints == Cardinality({k \in DOMAIN landmarks1 : Valid(k)})
    IN  IF validPoints > 0 THEN Total(Len(landmarks1)) \div validPoints ELSE 0

\* updatePerformanceMetrics
updatePerformanceMetrics(times, processingTime) ==
    LET pushed == Append(times, processingTime)
    IN  IF Len(pushed) > MaxProcessingTimes THEN Tail(pushed) ELSE pushed

NotCalibrated == "Cameras not calibrated for 3D processing"

Singular == "Matrix is singular"

\* the calibration is taken to be usable whatever its flag says
IsCalibrated_unchecked(calib) == TRUE

\* this.calibration.isCalibrated
IsCalibrated(calib) == calib.isCalibrated

\* process3DPose: the Error thrown ("" when none), the frame returned and
\* the processing times afterwards
process3DPose(calib, times, landmarks1, landmarks2, timestamp, processingTime) ==
    IF ~IsCalibrated(calib)
    THEN [error |-> NotCalibrated, pose |-> <<>>, times |-> times]
    ELSE LET landmarks3D == triangulatePoints(calib, landmarks1, landmarks2)
         IN  IF landmarks3D = <<>>
             THEN [error |-> Singular, pose |-> <<>>, times |-> times]
             ELSE LET constrainedLandmarks == applyBiomechanicalConstraints(landmarks3D[1])
                      smoothedLandmarks == applySmoothingFilter(constrainedLandmarks)
                  IN
                  [error |-> "",
                   pose |-> << [landmarks |-> smoothedLandmarks,
                                confidence |-> calculateTriangulationConfidence(landmarks1, landmarks2),
                                timestamp |-> timestamp,
                                processingTime |-> processingTime] >>,
                   times |-> updatePerformanceMetrics(times, processingTime)]

\* ------------------------------------------------------------------------
\* Inputs of process3DPose: two cameras' frames of one body.  A pose gives
\* the pixel <<x, y>> camera 1 sees for each landmark; camera 2 sees it
\* Disparity pixels to the left.
\* ------------------------------------------------------------------------
MaxCalls == 1

MaxOdd == 2

Disparity == 2

Upright3D ==
    [i \in 0..32 |->
        CASE i = 23 -> <<4, 2>> [] i = 25 -> <<4, 4>> [] i = 27 -> <<4, 6>>
          [] i = 24 -> <<2, 2>> [] i = 26 -> <<2, 4>> [] i = 28 -> <<2, 6>>
          [] OTHER -> <<3, 1>>]

Bent3D == [Upright3D EXCEPT ![25] = <<4, 5>>]

Poses3D == {Upright3D, Bent3D}

\* the left leg's landmarks, the ones the inputs vary
OddIdx == {23, 25, 27}

\* how a landmark pair can differ from a clean one: low visibility in one
\* camera, visibility 0.5, no visibility value, the same pixel in both cameras
OddKinds == {"low1", "low2", "half", "undefined", "same"}

Keypoint(px, vis) == [x |-> px[1], y |-> px[2], visibility |-> vis]

Cam1Of(pose, i, kind) ==
    Keypoint(pose[i], CASE kind = "low1" -> <<40>>
                        [] kind = "half" -> <<50>>
                        [] kind = "undefined" -> <<>>
                        [] OTHER -> <<100>>)

Cam2Of(pose, i, kind) ==
    Keypoint(<<pose[i][1] - (IF kind = "same" THEN 0 ELSE Disparity), pose[i][2]>>,
             CASE kind = "low2" -> <<40>>
               [] kind = "half" -> <<50>>
               [] OTHER -> <<100>>)

KindAt(odd, i) == IF i \in DOMAIN odd THEN odd[i] ELSE "clean"

OddChoices ==
    UNION {[S -> OddKinds] : S \in {T \in SUBSET OddIdx : Cardinality(T) <= MaxOdd}}

Camera1Frame(pose, n, odd) ==
    LET RECURSIVE Frame(_)
        Frame(k) == IF k = 0 THEN <<>>
                    ELSE Append(Frame(k - 1), Cam1Of(pose, k - 1, KindAt(odd, k - 1)))
    IN  Frame(n)

Camera2Frame(pose, n, odd) ==
    LET RECURSIVE Frame(_)
        Frame(k) == IF k = 0 THEN <<>>
                    ELSE Append(Frame(k - 1), Cam2Of(pose, k - 1, KindAt(odd, k - 1)))
    IN  Frame(n)

Lengths3D == {33, 26}

Timestamps == {33}

ProcessingTimes == {4}

\* new Pose3DProcessor(calibration)
NewPose3DProcessor ==
    /\ \E isCalibrated \in BOOLEAN : calibration' = Calibration(isCalibrated)
    /\ processingTimes' = <<>>
    /\ landmarks2D_cam1' = <<>>
    /\ landmarks2D_cam2' = <<>>
    /\ pose3D' = <<>>
    /\ error3D' = ""
    /\ calls3D' = 0
    /\ UNCHANGED op
    /\ UNCHANGED <<scoringVars, evalVars, appVars, cardVars, poseVars, analyzerVars, callVars, jumpTestVars,
                 captureVars>>

\* one call of process3DPose, to its return or its throw
Process3DPose ==
    /\ calls3D < MaxCalls
    /\ calls3D' = calls3D + 1
    /\ \E pose \in Poses3D, n1 \in Lengths3D, n2 \in Lengths3D, odd \in OddChoices,
          timestamp \in Timestamps, processingTime \in ProcessingTimes :
         LET cam1 == Camera1Frame(pose, n1, odd)
             cam2 == Camera2Frame(pose, n2, odd)
             out == process3DPose(calibration, processingTimes, cam1, cam2, timestamp, processingTime)
         IN  /\ landmarks2D_cam1' = cam1
             /\ landmarks2D_cam2' = cam2
             /\ pose3D' = out.pose
             /\ error3D' = out.error
             /\ processingTimes' = out.times
    /\ UNCHANGED calibration
    /\ UNCHANGED op
    /\ UNCHANGED <<scoringVars, evalVars, appVars, cardVars, poseVars, analyzerVars, callVars, jumpTestVars,
                 captureVars>>

\* ------------------------------------------------------------------------
\* DropJumpAnalyzer (utils/temporalAnalysis.ts).  Positions are in
\* thousandths, velocities in thousandths per second, timestamps in
\* milliseconds, durations in ninths of a millisecond (a duration is
\* frames / 90 * 1000), confidences in hundredths.
\* ------------------------------------------------------------------------
frameRate == 90

bufferSize == 450

\* detectLandingEvents looks at the last 90 frames, every 10th frame
WindowSize == 90

DetectEvery == 10

\* The frames show one rigid body, BodyPose, lifted by the frame's lift
\* along y; a frame is held as [lift, timestamp, confidence].
BodyPose ==
    [i \in 0..32 |->
        CASE i = 11 -> <<200, 400, 0>> [] i = 12 -> <<-200, 400, 0>>
          [] i = 13 -> <<400, 600, 0>> [] i = 14 -> <<-400, 600, 0>>
          [] i = 23 -> <<200, 1000, 0>> [] i = 24 -> <<-200, 1000, 0>>
          [] i = 25 -> <<200, 1400, 0>> [] i = 26 -> <<-200, 1400, 0>>
          [] i = 27 -> <<200, 1800, 0>> [] i = 28 -> <<-200, 1800, 0>>
          [] OTHER -> <<0, 200, 0>>]

\* frame.landmarks[i]
BodyAt(frame, i) ==
    [x |-> BodyPose[i][1], y |-> BodyPose[i][2] + frame.lift, z |-> BodyPose[i][3]]

calculateCenterOfMass(frame) ==
    LET leftHip == BodyAt(frame, 23)
        rightHip == BodyAt(frame, 24)
    IN  [x |-> (leftHip.x + rightHip.x) \div 2,
         y |-> (leftHip.y + rightHip.y) \div 2,
         z |-> (leftHip.z + rightHip.z) \div 2]

\* the velocity calculateVerticalVelocities pushes for frames[i], i >= 1
VelocityBetween(prevFrame, currFrame) ==
    LET deltaTime == currFrame.timestamp - prevFrame.timestamp
    IN  IF deltaTime > 0
        THEN ((calculateCenterOfMass(currFrame).y - calculateCenterOfMass(prevFrame).y) * 1000)
                 \div deltaTime
        ELSE 0

\* calculateVerticalVelocities; Pushed(from, to) is the part of the list the
\* loop pushes for the positions from..to
calculateVerticalVelocities(frames) ==
    LET RECURSIVE Pushed(_, _)
        Pushed(from, to) ==
            IF from > to THEN <<>>
            ELSE IF from = to THEN <<VelocityBetween(frames[from - 1], frames[from])>>
            ELSE LET mid == (from + to) \div 2
                 IN  Pushed(from, mid) \o Pushed(mid + 1, to)
    IN  <<0>> \o Pushed(2, Len(frames))

\* velocity < -0.8 starts a landing
LandingStarts(velocity) == velocity < -800

\* a landing ends at index i: velocity > -0.2 && i - startFrame > 15
LandingEnds(velocity, i, startFrame) == velocity > -200 /\ i - startFrame > 15

\* one pass of the loop of identifyLandingPhases, for JavaScript index i and
\* velocities[i]: the loop's variables and the phases pushed so far
LandingStep(before, i, velocity) ==
    IF ~before.inLanding /\ LandingStarts(velocity)
    THEN [before EXCEPT !.inLanding = TRUE, !.startFrame = i,
                        !.maxVelocity = velocity, !.impactFrame = i]
    ELSE IF before.inLanding
    THEN LET deeper == velocity < before.maxVelocity
             maxVelocity == IF deeper THEN velocity ELSE before.maxVelocity
             impactFrame == IF deeper THEN i ELSE before.impactFrame
         IN  IF LandingEnds(velocity, i, before.startFrame)
             THEN [phases |-> Append(before.phases,
                                 [startFrame |-> before.startFrame,
                                  endFrame |-> i,
                                  impactFrame |-> impactFrame,
                                  duration |-> ((i - before.startFrame) * 1000 * 9) \div frameRate,
                                  maxVelocity |-> maxVelocity]),
                   inLanding |-> FALSE,
                   startFrame |-> before.startFrame,
                   maxVelocity |-> maxVelocity,
                   impactFrame |-> impactFrame]
             ELSE [before EXCEPT !.maxVelocity = maxVelocity,
                                 !.impactFrame = impactFrame]
    ELSE before

\* identifyLandingPhases.  Passes(before, from, to) runs the loop's passes
\* for the indices from..to in order, the first half before the second.
identifyLandingPhases(frames) ==
    LET velocities == calculateVerticalVelocities(frames)
        RECURSIVE Passes(_, _, _)
        Passes(before, from, to) ==
            IF from > to THEN before
            ELSE IF from = to THEN LandingStep(before, from, velocities[from + 1])
            ELSE LET mid == (from + to) \div 2
                     half == Passes(before, from, mid)
                 IN  IF half.inLanding \in BOOLEAN
                     THEN Passes(half, mid + 1, to)
                     ELSE before
    IN  Passes([phases |-> <<>>, inLanding |-> FALSE, startFrame |-> 0,
                maxVelocity |-> 0, impactFrame |-> 0],
               1, Len(velocities) - 1).phases

\* duration <= 500 left out
isValidLanding_noMaximum(phase) ==
    /\ phase.duration >= 100 * 9
    /\ Abs(phase.maxVelocity) > 500

isValidLanding(phase) ==
    /\ phase.duration >= 100 * 9
    /\ phase.duration <= 500 * 9
    /\ Abs(phase.maxVelocity) > 500

\* Math.sqrt, rounded down to a whole number
ISqrt(n) == CHOOSE r \in 0..n : r * r <= n /\ (r + 1) * (r + 1) > n

\* the angle between two plane vectors, which does not depend on their
\* lengths: both are divided by their greatest common divisor first
PlaneAngle(ax, ay, bx, by) ==
    LET ga == GCD(ax, ay)
        gb == GCD(bx, by)
        ux == ax \div ga
        uy == ay \div ga
        vx == bx \div gb
        vy == by \div gb
    IN  ACosDeg(ux * vx + uy * vy, ux * ux + uy * uy, vx * vx + vy * vy)

\* calculateKneeValgus, in hundredths of a degree
calculateKneeValgus(hip, knee, ankle) ==
    LET thighX == knee.x - hip.x
        thighY == knee.y - hip.y
        shankX == ankle.x - knee.x
        shankY == ankle.y - knee.y
    IN  IF (thighX = 0 /\ thighY = 0) \/ (shankX = 0 /\ shankY = 0) THEN 0
        ELSE Abs(18000 - PlaneAngle(thighX, thighY, shankX, shankY))

\* calculateTrunkLean; the midpoints are held doubled, which leaves atan2
\* unchanged
calculateTrunkLean(leftShoulder, rightShoulder, leftHip, rightHip) ==
    LET trunkX == (leftShoulder.x + rightShoulder.x) - (leftHip.x + rightHip.x)
        trunkY == (leftShoulder.y + rightShoulder.y) - (leftHip.y + rightHip.y)
        trunkZ == (leftShoulder.z + rightShoulder.z) - (leftHip.z + rightHip.z)
        gs == GCD(trunkZ, trunkY)
        gf == GCD(trunkX, trunkY)
    IN  [sagittal |-> IF gs = 0 THEN 0 ELSE Abs(ATan2Deg(trunkZ \div gs, trunkY \div gs)),
         frontal |-> IF gf = 0 THEN 0 ELSE Abs(ATan2Deg(trunkX \div gf, trunkY \div gf))]

calculateArmPosition(leftShoulder, rightShoulder, leftElbow, rightElbow) ==
    LET armX == leftElbow.x - leftShoulder.x
        armY == leftElbow.y - leftShoulder.y
        armZ == leftElbow.z - leftShoulder.z
        g == GCD(GCD(armX, armY), armZ)
        shoulderAbduction ==
            IF g = 0 THEN 0
            ELSE ATan2Deg(ISqrt((armX \div g) * (armX \div g) + (armZ \div g) * (armZ \div g)),
                          armY \div g)
    IN  [shoulderAbduction |-> shoulderAbduction,
         elbowFlexion |-> 9000,
         valid |-> shoulderAbduction >= 3500 /\ shoulderAbduction <= 5500]

\* calculateLandingSymmetry: forceDistribution in thousandths,
\* timeToStabilization in ninths of a millisecond
calculateLandingSymmetry(frames) ==
    LET RECURSIVE SumY(_, _)
        SumY(i, k) == IF k = 0 THEN 0 ELSE SumY(i, k - 1) + BodyAt(frames[k], i).y
    IN  [forceDistribution |-> (Abs(SumY(27, Len(frames)) - SumY(28, Len(frames))) * 100)
                                   \div Len(frames),
         timeToStabilization |-> (Len(frames) * 1000 * 9) \div frameRate]

\* calculateInstabilityIndex, in thousandths
calculateInstabilityIndex(frames) ==
    LET Movement(k) ==
            LET a == calculateCenterOfMass(frames[k])
                b == calculateCenterOfMass(frames[k - 1])
            IN  ISqrt((a.x - b.x) * (a.x - b.x) + (a.y - b.y) * (a.y - b.y)
                          + (a.z - b.z) * (a.z - b.z))
        RECURSIVE Total(_)
        Total(k) == IF k <= 1 THEN 0 ELSE Total(k - 1) + Movement(k)
    IN  Total(Len(frames)) \div Len(frames)

\* the knee valgus factor counted once instead of twice
RiskScore_valgusOnce(metrics) ==
    (IF metrics.maxKneeValgus.left > 1500 \/ metrics.maxKneeValgus.right > 1500 THEN 1 ELSE 0)
    + (IF metrics.maxKneeValgus.asymmetry > 1000 THEN 1 ELSE 0)
    + (IF metrics.trunkLean.sagittal > 1500 \/ metrics.trunkLean.frontal > 1000 THEN 1 ELSE 0)
    + (IF ~metrics.armPosition.valid THEN 1 ELSE 0)
    + (IF metrics.instabilityIndex # 0 /\ metrics.instabilityIndex > 500 THEN 1 ELSE 0)

\* riskScore of assessOverallRisk; every call in the source passes all four
\* of maxKneeValgus, trunkLean, armPosition and instabilityIndex
RiskScore(metrics) ==
    (IF metrics.maxKneeValgus.left > 1500 \/ metrics.maxKneeValgus.right > 1500 THEN 2 ELSE 0)
    + (IF metrics.maxKneeValgus.asymmetry > 1000 THEN 1 ELSE 0)
    + (IF metrics.trunkLean.sagittal > 1500 \/ metrics.trunkLean.frontal > 1000 THEN 1 ELSE 0)
    + (IF ~metrics.armPosition.valid THEN 1 ELSE 0)
    + (IF metrics.instabilityIndex # 0 /\ metrics.instabilityIndex > 500 THEN 1 ELSE 0)

assessOverallRisk(metrics) ==
    LET riskScore == RiskScore(metrics)
    IN  IF riskScore >= 3 THEN "high"
        ELSE IF riskScore >= 1 THEN "moderate"
        ELSE "low"

\* Math.round(avgConfidence * 100)
calculateTrialConfidence(frames) ==
    LET RECURSIVE Sum(_)
        Sum(k) == IF k = 0 THEN 0 ELSE Sum(k - 1) + frames[k].confidence
    IN  (2 * Sum(Len(frames)) + Len(frames)) \div (2 * Len(frames))

calculateTrialMetrics(frames, impactIndex) ==
    LET impactFrame == frames[Min2(impactIndex, Len(frames) - 1) + 1]
        leftKneeValgus == calculateKneeValgus(BodyAt(impactFrame, 23), BodyAt(impactFrame, 25),
                                              BodyAt(impactFrame, 27))
        rightKneeValgus == calculateKneeValgus(BodyAt(impactFrame, 24), BodyAt(impactFrame, 26),
                                               BodyAt(impactFrame, 28))
        maxKneeValgus == [left |-> leftKneeValgus, right |-> rightKneeValgus,
                          asymmetry |-> Abs(leftKneeValgus - rightKneeValgus)]
        trunkLean == calculateTrunkLean(BodyAt(impactFrame, 11), BodyAt(impactFrame, 12),
                                        BodyAt(impactFrame, 23), BodyAt(impactFrame, 24))
        armPosition == calculateArmPosition(BodyAt(impactFrame, 11), BodyAt(impactFrame, 12),
                                            BodyAt(impactFrame, 13), BodyAt(impactFrame, 14))
        instabilityIndex == calculateInstabilityIndex(frames)
    IN  [maxKneeValgus |-> maxKneeValgus,
         trunkLean |-> trunkLean,
         landingSymmetry |-> calculateLandingSymmetry(frames),
         armPosition |-> armPosition,
         instabilityIndex |-> instabilityIndex,
         overallRisk |-> assessOverallRisk([maxKneeValgus |-> maxKneeValgus,
                                            trunkLean |-> trunkLean,
                                            armPosition |-> armPosition,
                                            instabilityIndex |-> instabilityIndex])]

\* Array.prototype.slice(from, to) for 0 <= from
Slice(list, from, to) == SubSeq(list, from + 1, Min2(to, Len(list)))

Max2(a, b) == IF a > b THEN a ELSE b

\* analyzeTrial: <<>> for null, else <<the trial>>
analyzeTrial(buffer, trialList, phase, now) ==
    LET relevantFrames == Slice(buffer,
                                Max2(0, Len(buffer) - WindowSize + phase.startFrame),
                                Max2(0, Len(buffer) - WindowSize + phase.endFrame))
    IN  IF Len(relevantFrames) = 0 THEN <<>>
        ELSE << [id |-> Len(trialList) + 1,
                 landingPhase |-> phase,
                 metrics |-> calculateTrialMetrics(relevantFrames,
                                                   phase.impactFrame - phase.startFrame),
                 confidence |-> calculateTrialConfidence(relevantFrames),
                 timestamp |-> now] >>

\* detectLandingEvents: the trial list afterwards
detectLandingEvents(buffer, trialList, now) ==
    IF Len(buffer) < WindowSize THEN trialList
    ELSE LET recentFrames == Slice(buffer, Len(buffer) - WindowSize, Len(buffer))
             landingPhases == identifyLandingPhases(recentFrames)
             RECURSIVE Loop(_)
             Loop(k) ==
                IF k = 0 THEN trialList
                ELSE LET before == Loop(k - 1)
                         trial == IF isValidLanding(landingPhases[k])
                                  THEN analyzeTrial(buffer, before, landingPhases[k], now)
                                  ELSE <<>>
                     IN  IF trial = <<>> THEN before ELSE Append(before, trial[1])
         IN  Loop(Len(landingPhases))

\* no shift: the buffer grows without limit
Buffered_noShift(buffer, frame) == Append(buffer, frame)

\* the buffer after the push and the shift of processFrame
Buffered(buffer, frame) ==
    LET pushed == Append(buffer, frame)
    IN  IF Len(pushed) > bufferSize THEN Tail(pushed) ELSE pushed

\* ------------------------------------------------------------------------
\* The athlete in front of the cameras: the hips stay still, then drop by
\* dipDrop a frame for dipLength frames from frame dipStart on, then rise by
\* restRise a frame.  One frame arrives every FrameInterval milliseconds.
\* ------------------------------------------------------------------------
MaxFrames == 110

FrameInterval == 10

NoJump == [dipStart |-> 0, dipLength |-> 0, dipDrop |-> 0, restRise |-> 0]

Jumps ==
    [dipStart : {25, 40, 55, 70}, dipLength : {5, 15, 16, 45, 46},
     dipDrop : {5, 10}, restRise : {0, 5}]

\* the change of the hips' height from frame k - 1 to frame k
DeltaAt(j, k) ==
    IF k < j.dipStart THEN 0
    ELSE IF k < j.dipStart + j.dipLength THEN -j.dipDrop
    ELSE j.restRise

\* the frame number n of the session, after the frames of the buffer
NextFrame(j, buffer, n) ==
    [lift |-> IF buffer = <<>> THEN 0
              ELSE buffer[Len(buffer)].lift + DeltaAt(j, n),
     timestamp |-> n * FrameInterval,
     confidence |-> 90]

\* startAnalysis, before one of the given movements
StartAnalysisOf(movements) ==
    /\ isAnalyzing' = TRUE
    /\ frameBuffer' = <<>>
    /\ trials' = <<>>
    /\ jump' \in movements
    /\ received' = 0
    /\ UNCHANGED op
    /\ UNCHANGED <<scoringVars, evalVars, appVars, cardVars, poseVars, stereoVars, callVars,
                   jumpTestVars, captureVars>>

StartAnalysis == StartAnalysisOf(Jumps)

StopAnalysis ==
    /\ isAnalyzing
    /\ isAnalyzing' = FALSE
    /\ UNCHANGED <<frameBuffer, trials, jump, received>>
    /\ UNCHANGED op
    /\ UNCHANGED <<scoringVars, evalVars, appVars, cardVars, poseVars, stereoVars, callVars,
                   jumpTestVars, captureVars>>

\* processFrame(pose3D), with the detectLandingEvents it calls
processFrame ==
    /\ IF ~isAnalyzing
       THEN UNCHANGED <<frameBuffer, trials, received>>
       ELSE \E now \in {1000} :
              LET buffer == Buffered(frameBuffer, NextFrame(jump, frameBuffer, received))
              IN  /\ frameBuffer' = buffer
                  /\ received' = received + 1
                  /\ trials' = IF Len(buffer) % DetectEvery = 0
                               THEN detectLandingEvents(buffer, trials, now)
                               ELSE trials
    /\ UNCHANGED <<isAnalyzing, jump>>

\* a processFrame call on the analyzer alone; at most limit frames are handed
\* over in a session
ProcessFrameWithin(limit) ==
    /\ received < limit
    /\ processFrame
    /\ UNCHANGED op
    /\ UNCHANGED <<scoringVars, evalVars, appVars, cardVars, poseVars, stereoVars, callVars,
                   jumpTestVars, captureVars>>

ProcessFrame == ProcessFrameWithin(MaxFrames)

\* a session longer than the buffer: one landing early on, then standing
MaxLongFrames == 460

LongJumps == {j \in Jumps : j.dipStart = 25 /\ j.dipLength = 15 /\ j.restRise = 0}

StartLongAnalysis == StartAnalysisOf(LongJumps)

ProcessLongFrame == ProcessFrameWithin(MaxLongFrames)

\* getRiskDistribution over the trial list
getRiskDistribution(trialList) ==
    [risk \in {"low", "moderate", "high"} |->
        Cardinality({k \in 1..Len(trialList) : trialList[k].metrics.overallRisk = risk})]

\* count / total >= tenths / 10, for the 0.5 and 0.3 thresholds
AtLeastShare_above(count, total, tenths) == 10 * count > tenths * total

AtLeastShare(count, total, tenths) == 10 * count >= tenths * total

getOverallAssessment(trialList) ==
    IF Len(trialList) = 0 THEN "low"
    ELSE LET riskDistribution == getRiskDistribution(trialList)
         IN  IF AtLeastShare(riskDistribution["high"], Len(trialList), 5) THEN "high"
             ELSE IF AtLeastShare(riskDistribution["high"], Len(trialList), 3)
                     \/ AtLeastShare(riskDistribution["moderate"], Len(trialList), 5)
                  THEN "moderate"
             ELSE "low"

(***************************************************************************)
(* Metric sets around each threshold of assessOverallRisk, and trial lists  *)
(* of every mix of risks up to MaxPerRisk trials of each risk.              *)
(***************************************************************************)
RiskMetrics ==
    {[maxKneeValgus |-> [left |-> l, right |-> r, asymmetry |-> a],
      trunkLean |-> [sagittal |-> sg, frontal |-> fr],
      armPosition |-> [valid |-> v],
      instabilityIndex |-> ii] :
        l \in {1400, 1500, 1501}, r \in {1400, 1500, 1501}, a \in {1000, 1001},
        sg \in {1500, 1501}, fr \in {1000, 1001}, v \in BOOLEAN,
        ii \in {0, 500, 501}}

MaxPerRisk == 4

Repeated(item, n) ==
    LET RECURSIVE Rep(_)
        Rep(k) == IF k = 0 THEN <<>> ELSE Append(Rep(k - 1), item)
    IN  Rep(n)

TrialsOf(nLow, nModerate, nHigh) ==
    LET TrialWithRisk(risk) == [metrics |-> [overallRisk |-> risk]]
    IN  Repeated(TrialWithRisk("high"), nHigh) \o Repeated(TrialWithRisk("low"), nLow)
            \o Repeated(TrialWithRisk("moderate"), nModerate)

CallAssessOverallRisk ==
    /\ op = "init"
    /\ \E metrics \in RiskMetrics :
        /\ fnArgs' = <<metrics>>
        /\ fnResult' = <<assessOverallRisk(metrics)>>
    /\ op' = "assessOverallRisk"
    /\ UNCHANGED <<scoringVars, evalVars, appVars, cardVars, poseVars, stereoVars, analyzerVars, jumpTestVars,
                 captureVars>>

CallGetOverallAssessment ==
    /\ op = "init"
    /\ \E nLow \in 0..MaxPerRisk, nModerate \in 0..MaxPerRisk, nHigh \in 0..MaxPerRisk :
        /\ fnArgs' = <<TrialsOf(nLow, nModerate, nHigh)>>
        /\ fnResult' = <<getOverallAssessment(TrialsOf(nLow, nModerate, nHigh))>>
    /\ op' = "getOverallAssessment"
    /\ UNCHANGED <<scoringVars, evalVars, appVars, cardVars, poseVars, stereoVars, analyzerVars, jumpTestVars,
                 captureVars>>

(***************************************************************************)
(* BiomechanicsCalculator (utils/biomechanics.ts).  Points are records of   *)
(* whole coordinates; the symmetry value is held in tenths of a percent,    *)
(* the unit Math.round(symmetryIndex * 10) / 10 keeps.                      *)
(***************************************************************************)
PositiveInfinity == 7777777

calculateJointAngle3D(proximal, joint, distal, plane) ==
    LET vector1 == [x |-> proximal.x - joint.x, y |-> proximal.y - joint.y,
                    z |-> proximal.z - joint.z]
        vector2 == [x |-> distal.x - joint.x, y |-> distal.y - joint.y,
                    z |-> distal.z - joint.z]
        Project(v) ==
            CASE plane = "sagittal" -> [x |-> 0, y |-> v.y, z |-> v.z]
              [] plane = "frontal" -> [x |-> v.x, y |-> v.y, z |-> 0]
              [] plane = "transverse" -> [x |-> v.x, y |-> 0, z |-> v.z]
        projectedVector1 == Project(vector1)
        projectedVector2 == Project(vector2)
        dot == projectedVector1.x * projectedVector2.x
               + projectedVector1.y * projectedVector2.y
               + projectedVector1.z * projectedVector2.z
        mag1sq == projectedVector1.x * projectedVector1.x
                  + projectedVector1.y * projectedVector1.y
                  + projectedVector1.z * projectedVector1.z
        mag2sq == projectedVector2.x * projectedVector2.x
                  + projectedVector2.y * projectedVector2.y
                  + projectedVector2.z * projectedVector2.z
    IN  IF mag1sq = 0 \/ mag2sq = 0 THEN 0
        ELSE ACosDeg(dot, mag1sq, mag2sq)

\* (asymmetry / Math.max(leftMetric, rightMetric)) * 100 as the pair
\* <<numerator, denominator>>; 0 / 0 is NaN and a positive number over 0 is
\* Infinity
calculateBilateralSymmetry(leftMetric, rightMetric) ==
    LET asymmetry == IF leftMetric >= rightMetric THEN leftMetric - rightMetric
                     ELSE rightMetric - leftMetric
        greater == IF leftMetric >= rightMetric THEN leftMetric ELSE rightMetric
        \* symmetryIndex <= bound, symmetryIndex > bound
        AtMost(bound) ==
            IF greater > 0 THEN 100 * asymmetry <= bound * greater
            ELSE IF greater < 0 THEN TRUE
            ELSE FALSE
        Above(bound) ==
            IF greater > 0 THEN 100 * asymmetry > bound * greater
            ELSE IF greater < 0 THEN FALSE
            ELSE asymmetry > 0
        \* Math.round(symmetryIndex * 10), in tenths of a percent
        rounded ==
            IF greater > 0 THEN (2000 * asymmetry + greater) \div (2 * greater)
            ELSE IF greater < 0 THEN (-(2000 * asymmetry + greater)) \div (-(2 * greater))
            ELSE IF asymmetry > 0 THEN PositiveInfinity
            ELSE NaN
    IN  [value |-> rounded,
         normal |-> AtMost(10),
         warning |-> Above(10) /\ AtMost(15)]

(***************************************************************************)
(* The points and values the angle and symmetry functions are called with.  *)
(***************************************************************************)
MaxCoordinate == 1
MaxSymmetryValue == 21
MinSymmetryValue == -2

Points2D == {[x |-> px, y |-> py] : px \in -MaxCoordinate..MaxCoordinate,
                                    py \in -MaxCoordinate..MaxCoordinate}

Points3D == {[x |-> px, y |-> py, z |-> pz] :
                px \in 0..MaxCoordinate, py \in 0..MaxCoordinate, pz \in 0..MaxCoordinate}

Planes == {"sagittal", "frontal", "transverse"}

CallCalculateAngle ==
    /\ op = "init"
    /\ \E point1 \in Points2D, point2 \in Points2D, point3 \in Points2D :
        /\ fnArgs' = <<point1, point2, point3>>
        /\ fnResult' = <<calculateAngle(point1, point2, point3)>>
    /\ op' = "calculateAngle"
    /\ UNCHANGED <<scoringVars, evalVars, appVars, cardVars, poseVars, stereoVars, analyzerVars, jumpTestVars,
                 captureVars>>

CallCalculateJointAngle3D ==
    /\ op = "init"
    /\ \E proximal \in Points3D, joint \in Points3D, distal \in Points3D, plane \in Planes :
        /\ fnArgs' = <<proximal, joint, distal, plane>>
        /\ fnResult' = <<calculateJointAngle3D(proximal, joint, distal, plane)>>
    /\ op' = "calculateJointAngle3D"
    /\ UNCHANGED <<scoringVars, evalVars, appVars, cardVars, poseVars, stereoVars, analyzerVars, jumpTestVars,
                 captureVars>>

CallCalculateBilateralSymmetry ==
    /\ op = "init"
    /\ \E leftMetric \in MinSymmetryValue..MaxSymmetryValue,
          rightMetric \in MinSymmetryValue..MaxSymmetryValue :
        /\ fnArgs' = <<leftMetric, rightMetric>>
        /\ fnResult' = <<calculateBilateralSymmetry(leftMetric, rightMetric)>>
    /\ op' = "calculateBilateralSymmetry"
    /\ UNCHANGED <<scoringVars, evalVars, appVars, cardVars, poseVars, stereoVars, analyzerVars, jumpTestVars,
                 captureVars>>

(***************************************************************************)
(* DropJumpTest (the dual-camera driver component).                         *)
(***************************************************************************)
\* trial.riskLevel, "undefined" when the trial object has no such property
RiskLevelOf(trial) ==
    IF "riskLevel" \in DOMAIN trial THEN trial.riskLevel ELSE "undefined"

\* generateAssessment: overallRisk and riskDistribution of the assessment;
\* riskDistribution[undefined]++ leaves the three counts as they are
generateAssessment(trialList) ==
    LET riskDistribution ==
            [risk \in {"low", "moderate", "high"} |->
                Cardinality({k \in 1..Len(trialList) : RiskLevelOf(trialList[k]) = risk})]
        overallRisk ==
            IF Len(trialList) > 0
            THEN IF 2 * riskDistribution["high"] >= Len(trialList) THEN "high"
                 ELSE IF 2 * riskDistribution["moderate"] >= Len(trialList) THEN "moderate"
                 ELSE "low"
            ELSE "low"
    IN  [testId |-> "drop-jump",
         trials |-> trialList,
         overallRisk |-> overallRisk,
         riskDistribution |-> riskDistribution]

\* the isRecording that processCombinedResults reads.  pose1.onResults and
\* pose2.onResults are given onPose1Results and onPose2Results once, by the
\* mount effect; these are the functions of the first render and they close
\* over that render's isRecording, the initial state.
CapturedIsRecording == FALSE

MaxTicks == 4
MaxSkew == 1

\* processCombinedResults with the two refs as the handler left them
processCombinedResults(ref1, ref2) ==
    IF ref1 = <<>> \/ ref2 = <<>>
    THEN UNCHANGED <<stereoCalls, analyzerVars>>
    ELSE /\ stereoCalls' = Append(stereoCalls, <<ref1[1], ref2[1]>>)
         /\ IF CapturedIsRecording
            THEN processFrame
            ELSE UNCHANGED analyzerVars

\* onPose1Results for the next capture tick of camera 1, with or without a
\* person in the image
OnPose1Results ==
    /\ camerasStarted
    /\ arrived1 < MaxTicks
    /\ arrived1 - arrived2 < MaxSkew
    /\ arrived1' = arrived1 + 1
    /\ \E poseLandmarks \in {<<>>, <<[camera |-> 1, tick |-> arrived1 + 1]>>} :
         /\ landmarks1Ref' = poseLandmarks
         /\ processCombinedResults(poseLandmarks, landmarks2Ref)
    /\ UNCHANGED <<isRecording, camerasStarted, landmarks2Ref, arrived2, assessment>>
    /\ UNCHANGED op
    /\ UNCHANGED <<scoringVars, evalVars, appVars, cardVars, poseVars, stereoVars, callVars,
                   captureVars>>

OnPose2Results ==
    /\ camerasStarted
    /\ arrived2 < MaxTicks
    /\ arrived2 - arrived1 < MaxSkew
    /\ arrived2' = arrived2 + 1
    /\ \E poseLandmarks \in {<<>>, <<[camera |-> 2, tick |-> arrived2 + 1]>>} :
         /\ landmarks2Ref' = poseLandmarks
         /\ processCombinedResults(landmarks1Ref, poseLandmarks)
    /\ UNCHANGED <<isRecording, camerasStarted, landmarks1Ref, arrived1, assessment>>
    /\ UNCHANGED op
    /\ UNCHANGED <<scoringVars, evalVars, appVars, cardVars, poseVars, stereoVars, callVars,
                   captureVars>>

\* the record button while not recording
StartRecording ==
    /\ ~isRecording
    /\ isRecording' = TRUE
    /\ isAnalyzing' = TRUE
    /\ frameBuffer' = <<>>
    /\ trials' = <<>>
    /\ received' = 0
    /\ jump' \in LongJumps
    /\ camerasStarted' = TRUE
    /\ UNCHANGED <<landmarks1Ref, landmarks2Ref, arrived1, arrived2, stereoCalls, assessment>>
    /\ UNCHANGED op
    /\ UNCHANGED <<scoringVars, evalVars, appVars, cardVars, poseVars, stereoVars, callVars,
                   captureVars>>

\* the record button while recording
StopRecording ==
    /\ isRecording
    /\ isRecording' = FALSE
    /\ isAnalyzing' = FALSE
    /\ assessment' = <<generateAssessment(trials)>>
    /\ UNCHANGED <<frameBuffer, trials, jump, received>>
    /\ UNCHANGED <<camerasStarted, landmarks1Ref, landmarks2Ref, arrived1, arrived2, stereoCalls>>
    /\ UNCHANGED op
    /\ UNCHANGED <<scoringVars, evalVars, appVars, cardVars, poseVars, stereoVars, callVars,
                   captureVars>>

(***************************************************************************)
(* PoseDetection.onResults: the detector's landmarks become PoseKeypoints   *)
(* and go to calculateAllJointAngles.                                       *)
(***************************************************************************)
\* visibility: landmark.visibility || 1
ConvertLandmark(landmark) ==
    [landmark EXCEPT !.visibility =
        IF landmark.visibility = <<>> \/ landmark.visibility[1] = 0
        THEN <<100>>
        ELSE landmark.visibility]

\* what the detector can report for a landmark it does not see well
DetectorKinds == {"0", "undefined", "30"}

\* results.poseLandmarks: the 33 landmarks of a pose, those in DOMAIN low
\* with the visibility low says
DetectedFrame(pose, low) ==
    [k \in 1..33 |->
        [present |-> TRUE, x |-> pose[k - 1][1], y |-> pose[k - 1][2],
         visibility |-> IF k - 1 \notin DOMAIN low THEN <<100>>
                        ELSE CASE low[k - 1] = "0" -> <<0>>
                               [] low[k - 1] = "undefined" -> <<>>
                               [] OTHER -> <<30>>]]

OnResults ==
    /\ op = "init"
    /\ \E pose \in Poses :
         \E S \in {T \in SUBSET JointIdx : Cardinality(T) <= MaxLow} :
           \E low \in [S -> DetectorKinds] :
             LET poseLandmarks == DetectedFrame(pose, low)
                 converted == [k \in 1..33 |-> ConvertLandmark(poseLandmarks[k])]
             IN  /\ fnArgs' = <<poseLandmarks>>
                 /\ landmarks' = converted
                 /\ jointAngles' = calculateAllJointAngles(converted)
    /\ fnResult' = <<>>
    /\ op' = "onResults"
    /\ UNCHANGED <<metricTest, results>>
    /\ UNCHANGED <<scoringVars, evalVars, appVars, cardVars, stereoVars, analyzerVars,
                   jumpTestVars, captureVars>>

Init ==
    /\ op = "init"
    /\ gasResults = <<>>
    /\ gasScore = 0
    /\ evMetric = <<>>
    /\ evActual = 0
    /\ evResult = <<>>
    /\ currentTest = 1
    /\ automaticScore = 0
    /\ assessmentScores = <<>>
    /\ manualScore = 0
    /\ isEditing = FALSE
    /\ painReported = FALSE
    /\ overrideReason = ""
    /\ landmarks = <<>>
    /\ jointAngles = <<>>
    /\ metricTest = 0
    /\ results = <<>>
    /\ calibration = Calibration(TRUE)
    /\ processingTimes = <<>>
    /\ landmarks2D_cam1 = <<>>
    /\ landmarks2D_cam2 = <<>>
    /\ pose3D = <<>>
    /\ error3D = ""
    /\ calls3D = 0
    /\ isAnalyzing = FALSE
    /\ frameBuffer = <<>>
    /\ trials = <<>>
    /\ jump = NoJump
    /\ received = 0
    /\ isRecording = FALSE
    /\ camerasStarted = FALSE
    /\ landmarks1Ref = <<>>
    /\ landmarks2Ref = <<>>
    /\ arrived1 = 0
    /\ arrived2 = 0
    /\ stereoCalls = <<>>
    /\ assessment = <<>>
    /\ mcsIsRecording = FALSE
    /\ mcsArrays = << <<>> >>
    /\ mcsFrames = 1
    /\ mcsFrameIndex = 0
    /\ mcsPending = <<0, 0, 0>>
    /\ mcsStored = <<>>
    /\ mcsRecordings = <<>>
    /\ fnArgs = <<>>
    /\ fnResult = <<>>

NextScoring == CallGenerateAutomaticScore

SpecScoring == Init /\ [][NextScoring]_vars

NextEval == EvaluateCatalogMetric \/ EvaluateGenericMetric

SpecEval == Init /\ [][NextEval]_vars

NextCard ==
    \/ HandlePoseResults
    \/ HandleTestChange
    \/ StartEditing
    \/ SelectScore
    \/ HandlePainToggle
    \/ TypeOverrideReason
    \/ HandleScoreUpdate

SpecCard == Init /\ [][NextCard]_vars

NextPose == CallCalculateAllJointAngles \/ CallGetDetailedMetricResults

SpecPose == Init /\ [][NextPose]_vars

Next3D == NewPose3DProcessor \/ Process3DPose

Spec3D == Init /\ [][Next3D]_vars

NextAnalyzer == StartAnalysis \/ StopAnalysis \/ ProcessFrame

NextLongSession == StartLongAnalysis \/ StopAnalysis \/ ProcessLongFrame

SpecLongSession == Init /\ [][NextLongSession]_vars

NextJumpTest == StartRecording \/ StopRecording \/ OnPose1Results \/ OnPose2Results

SpecJumpTest == Init /\ [][NextJumpTest]_vars

(***************************************************************************)
(* MotionCaptureSystem: startRecording, stopRecording, processFrame         *)
(***************************************************************************)
MaxRecordings == 2
MaxCaptureFrames == 3
MaxStored == 20

OtherGroupsThanCapture ==
    <<op, scoringVars, evalVars, appVars, cardVars, poseVars, stereoVars, analyzerVars,
      callVars, jumpTestVars>>

\* this.frames = [] makes a new array; a recording made earlier keeps the old one
McsStartRecording ==
    /\ Len(mcsArrays) <= MaxRecordings
    /\ mcsIsRecording' = TRUE
    /\ mcsArrays' = Append(mcsArrays, <<>>)
    /\ mcsFrames' = Len(mcsArrays) + 1
    /\ mcsFrameIndex' = 0
    /\ UNCHANGED <<mcsPending, mcsStored, mcsRecordings>>
    /\ UNCHANGED OtherGroupsThanCapture

\* recordings.unshift(recording); if (recordings.length > 20) recordings.splice(20)
saveRecording(stored, serialized) ==
    LET unshifted == <<serialized>> \o stored
    IN  IF Len(unshifted) > MaxStored THEN SubSeq(unshifted, 1, MaxStored) ELSE unshifted

\* frames: this.frames is the array itself, totalFrames its length now;
\* JSON.stringify in saveRecording copies the frames as they are now
McsStopRecording ==
    /\ Len(mcsRecordings) < MaxRecordings
    /\ mcsIsRecording' = FALSE
    /\ LET totalFrames == Len(mcsArrays[mcsFrames])
       IN  /\ mcsRecordings' = Append(mcsRecordings,
                                 [frames |-> mcsFrames, totalFrames |-> totalFrames])
           /\ mcsStored' = saveRecording(mcsStored,
                                 [frames |-> mcsArrays[mcsFrames], totalFrames |-> totalFrames])
    /\ UNCHANGED <<mcsArrays, mcsFrames, mcsFrameIndex, mcsPending>>
    /\ UNCHANGED OtherGroupsThanCapture

\* processFrame up to its first await: isRecording is read here and only here;
\* poseDetector.onResults = resolve replaces whatever resolve was there
McsProcessFrame ==
    /\ mcsIsRecording
    /\ mcsPending' = [mcsPending EXCEPT ![1] = 1]
    /\ UNCHANGED <<mcsIsRecording, mcsArrays, mcsFrames, mcsFrameIndex, mcsStored,
                   mcsRecordings>>
    /\ UNCHANGED OtherGroupsThanCapture

\* the pose detector calls its onResults: processFrame goes on to the hands detector
McsPoseResults ==
    /\ mcsPending[1] = 1
    /\ mcsPending' = [mcsPending EXCEPT ![1] = 0, ![2] = 1]
    /\ UNCHANGED <<mcsIsRecording, mcsArrays, mcsFrames, mcsFrameIndex, mcsStored,
                   mcsRecordings>>
    /\ UNCHANGED OtherGroupsThanCapture

\* the hands detector calls its onResults: processFrame goes on to the face mesh
McsHandResults ==
    /\ mcsPending[2] = 1
    /\ mcsPending' = [mcsPending EXCEPT ![2] = 0, ![3] = 1]
    /\ UNCHANGED <<mcsIsRecording, mcsArrays, mcsFrames, mcsFrameIndex, mcsStored,
                   mcsRecordings>>
    /\ UNCHANGED OtherGroupsThanCapture

\* the face mesh calls its onResults: the frame is built and pushed onto
\* this.frames, whatever isRecording is by now
McsFaceResults ==
    /\ mcsPending[3] = 1
    /\ Len(mcsArrays[mcsFrames]) < MaxCaptureFrames
    /\ mcsPending' = [mcsPending EXCEPT ![3] = 0]
    /\ mcsArrays' = [mcsArrays EXCEPT ![mcsFrames] =
                        Append(@, [frameIndex |-> mcsFrameIndex])]
    /\ mcsFrameIndex' = mcsFrameIndex + 1
    /\ UNCHANGED <<mcsIsRecording, mcsFrames, mcsStored, mcsRecordings>>
    /\ UNCHANGED OtherGroupsThanCapture

NextCapture ==
    \/ McsStartRecording
    \/ McsStopRecording
    \/ McsProcessFrame
    \/ McsPoseResults
    \/ McsHandResults
    \/ McsFaceResults

SpecCapture == Init /\ [][NextCapture]_vars

NextDetection == OnResults

SpecDetection == Init /\ [][NextDetection]_vars

SpecAnalyzer == Init /\ [][NextAnalyzer]_vars

NextRisk == CallAssessOverallRisk \/ CallGetOverallAssessment

SpecRisk == Init /\ [][NextRisk]_vars

NextGeometry ==
    CallCalculateAngle \/ CallCalculateJointAngle3D \/ CallCalculateBilateralSymmetry

SpecGeometry == Init /\ [][NextGeometry]_vars

\* ------------------------------------------------------------------------
\* Claims about the scoring engine
\* ------------------------------------------------------------------------
\* the claims' own count: a metric is failed iff its pass flag is false
FailedCount(rs, critical) ==
    Cardinality({i \in DOMAIN rs : rs[i].isCritical = critical /\ ~rs[i].pass})

Score3Applies(rs) == FailedCount(rs, TRUE) = 0 /\ FailedCount(rs, FALSE) <= 1

\* C1 (as stated): for every list of metric results, no critical failure and
\* at most one non-critical failure gives score 3.
C1_AsStated ==
    (op = "generateAutomaticScore" /\ Score3Applies(gasResults)) => gasScore = 3

\* C1 (amended): for every non-empty list of metric results, no critical
\* failure and at most one non-critical failure gives score 3; the empty list
\* gives score 0.
C1_Score3NonEmpty ==
    op = "generateAutomaticScore" =>
        /\ (Len(gasResults) > 0 /\ Score3Applies(gasResults)) => gasScore = 3
        /\ Len(gasResults) = 0 => gasScore = 0

\* a non-empty list with all critical metrics passed and exactly one failed
\* non-critical metric has been scored
C1_Witness ==
    /\ op = "generateAutomaticScore"
    /\ Len(gasResults) > 1
    /\ FailedCount(gasResults, TRUE) = 0
    /\ FailedCount(gasResults, FALSE) = 1
    /\ gasScore = 3

\* C2: when the score-3 rule does not apply, the score is 2 for exactly one
\* critical failure or for no critical failure with exactly two non-critical
\* failures, and 1 in every other case.
C2_Score2Or1 ==
    (op = "generateAutomaticScore" /\ ~Score3Applies(gasResults)) =>
        LET cf == FailedCount(gasResults, TRUE)
            nf == FailedCount(gasResults, FALSE)
        IN  IF cf = 1 \/ (cf = 0 /\ nf = 2) THEN gasScore = 2 ELSE gasScore = 1

\* a list with no critical failure and three non-critical failures scored 1
C2_Witness ==
    /\ op = "generateAutomaticScore"
    /\ FailedCount(gasResults, TRUE) = 0
    /\ FailedCount(gasResults, FALSE) = 3
    /\ gasScore = 1

\* ------------------------------------------------------------------------
\* Claims about the metric evaluator
\* ------------------------------------------------------------------------
\* C5: pass is set with inclusive bounds: min and max, min <= actual <= max;
\* min only, actual >= min; max only, actual <= max; exact target,
\* |actual - target| <= tolerance.
C5_InclusiveBounds ==
    op = "evaluate" =>
        LET m == evMetric
            a == evActual
            hasMin == m.targetMin # <<>>
            hasMax == m.targetMax # <<>>
            hasExact == m.targetExact # <<>>
        IN  /\ (hasMin /\ hasMax) =>
                (evResult.pass <=> (a # NaN /\ m.targetMin[1] <= a /\ a <= m.targetMax[1]))
            /\ (hasMin /\ ~hasMax) =>
                (evResult.pass <=> (a # NaN /\ a >= m.targetMin[1]))
            /\ (~hasMin /\ hasMax) =>
                (evResult.pass <=> (a # NaN /\ a <= m.targetMax[1]))
            /\ (~hasMin /\ ~hasMax /\ hasExact) =>
                (evResult.pass <=> (a # NaN /\ Abs(a - m.targetExact[1]) <= m.tolerance))

\* a catalog metric's value exactly at its upper bound has passed
C5_Witness ==
    /\ op = "evaluate"
    /\ evMetric \in CatalogMetrics
    /\ evMetric.targetMax # <<>>
    /\ evActual = evMetric.targetMax[1]
    /\ evResult.pass

\* the claims' own reading of "within tolerance of the violated bound"
WithinToleranceOfBound(m, a) ==
    /\ a # NaN
    /\ \/ m.targetMax # <<>> /\ a > m.targetMax[1] /\ a <= m.targetMax[1] + m.tolerance
       \/ m.targetMin # <<>> /\ a < m.targetMin[1] /\ a >= m.targetMin[1] - m.tolerance

\* C6: for a catalog metric whose value does not pass, warning is true iff
\* the value lies within the tolerance of the violated bound.
C6_WarningWithinTolerance ==
    (op = "evaluate" /\ evMetric \in CatalogMetrics /\ ~evResult.pass /\ evActual # NaN) =>
        (evResult.warning <=> WithinToleranceOfBound(evMetric, evActual))

\* ------------------------------------------------------------------------
\* Claims about the score card
\* ------------------------------------------------------------------------
\* the AssessmentScore stored for a test (handleScoreChange keeps the emitted
\* score, painReported and auditTrail as they are)
SavedScore(scores, t) == scores[FindIndex(scores, FMS_TESTS[t].id)]

\* the audit-trail changes stored for a test, none before its first save
SavedChanges(scores, t) ==
    IF FindIndex(scores, FMS_TESTS[t].id) = 0 THEN <<>>
    ELSE SavedScore(scores, t).auditTrail.changes

\* C3: every AssessmentScore that handleScoreUpdate emits while the pain flag
\* is set has score 0 and painReported = true, and the audit entry appended
\* by that save has to = 0 and reason 'Pain reported'.  (A step that changes
\* assessmentScores is a save: no other operation writes it.)
C3_PainForcesZero ==
    [][(painReported /\ assessmentScores' # assessmentScores) =>
        LET score == SavedScore(assessmentScores', currentTest)
            changes == score.auditTrail.changes
        IN  /\ score.score = 0
            /\ score.painReported = TRUE
            /\ Len(changes) = Len(SavedChanges(assessmentScores, currentTest)) + 1
            /\ changes[Len(changes)].to = 0
            /\ changes[Len(changes)].reason = "Pain reported"]_vars

\* a save with the pain flag set has replaced an earlier saved score of 3
\* while the automatic score was 3
C3_Witness ==
    /\ FindIndex(assessmentScores, FMS_TESTS[currentTest].id) # 0
    /\ LET score == SavedScore(assessmentScores, currentTest)
       IN  /\ score.painReported
           /\ score.automaticScore = 3
           /\ Len(score.auditTrail.changes) = 2
           /\ score.auditTrail.changes[2].from = 3

\* ------------------------------------------------------------------------
\* Claims about the joint angle engine and the metric formulas
\* ------------------------------------------------------------------------
\* the claims' own reading of a usable landmark: present, visibility > 0.5
Usable(frame, i) ==
    /\ i + 1 \in DOMAIN frame
    /\ frame[i + 1].present
    /\ frame[i + 1].visibility # <<>>
    /\ frame[i + 1].visibility[1] > 50

ReportedNames == {jointAngles[k].name : k \in DOMAIN jointAngles}

\* C4: for a frame of at least 33 landmarks, a joint angle is reported iff
\* all three landmarks that define the joint have visibility > 0.5; a joint
\* with a defining landmark at 0.5 or less is absent from the output.
C4_ReportedIffVisible ==
    (op = "calculateAllJointAngles" /\ Len(landmarks) >= 33) =>
        /\ \A k \in DOMAIN Joints :
              Joints[k].name \in ReportedNames <=>
                  /\ Usable(landmarks, Joints[k].p1)
                  /\ Usable(landmarks, Joints[k].p2)
                  /\ Usable(landmarks, Joints[k].p3)
        /\ \A k \in DOMAIN jointAngles :
              \A n \in 1..3 :
                  /\ jointAngles[k].points[n].visibility # <<>>
                  /\ jointAngles[k].points[n].visibility[1] > 50
        /\ Len(jointAngles) = Cardinality(ReportedNames)

\* a full frame whose left knee is at visibility 0.5 exactly: the joints
\* through the left knee are absent, the right knee is reported
C4_Witness ==
    /\ op = "calculateAllJointAngles"
    /\ Len(landmarks) = 33
    /\ landmarks[26].visibility = <<50>>
    /\ "Left Knee" \notin ReportedNames
    /\ "Left Hip" \notin ReportedNames
    /\ "Right Knee" \in ReportedNames

\* the claims' own table of the landmarks a metric is computed from; a
\* metric that takes the first reported of two joints has no usable source
\* when neither joint has one
SourceUnusable(id, frame) ==
    LET Bad(S) == \E i \in S : ~Usable(frame, i)
    IN  CASE id = "knee-valgus-left" -> Bad({23, 25, 27})
          [] id = "knee-valgus-right" -> Bad({24, 26, 28})
          [] id = "knee-flexion-depth" -> Bad({23, 25, 27}) \/ Bad({24, 26, 28})
          [] id = "pelvic-rotation" -> Bad({23, 24})
          [] id = "front-knee-flexion" -> Bad({23, 25, 27}) /\ Bad({24, 26, 28})
          [] id = "pelvic-tilt" -> Bad({11, 12, 23, 24})
          [] id = "trail-leg-hip-flexion" -> Bad({11, 23, 25}) /\ Bad({12, 24, 26})
          [] OTHER -> FALSE

\* C7: for every metric of every catalog test, when a landmark the metric is
\* computed from is missing or at or below the 0.5 gate, the metric is still
\* reported, with actualValue = 0 and confidence = 0.
C7_UnusableSourceGivesZero ==
    op = "getDetailedMetricResults" =>
        /\ Len(results) = Len(FMS_TESTS[metricTest].metrics)
        /\ \A i \in DOMAIN results :
              /\ results[i].metricId = FMS_TESTS[metricTest].metrics[i].id
              /\ SourceUnusable(results[i].metricId, landmarks) =>
                    (results[i].actualValue = 0 /\ results[i].confidence = 0)

\* ------------------------------------------------------------------------
\* Claims about Pose3DProcessor
\* ------------------------------------------------------------------------
\* C8: with isCalibrated = false, every call of process3DPose fails with the
\* not-calibrated error, returns no frame and leaves the recorded processing
\* times unchanged.
C8_NotCalibratedFails ==
    [][(~calibration.isCalibrated /\ calls3D' = calls3D + 1) =>
          /\ error3D' = NotCalibrated
          /\ pose3D' = <<>>
          /\ processingTimes' = processingTimes]_vars

\* a call on an uncalibrated processor has thrown
C8_Witness ==
    /\ ~calibration.isCalibrated
    /\ calls3D = 1
    /\ Len(landmarks2D_cam1) = 33
    /\ error3D = NotCalibrated
    /\ pose3D = <<>>
    /\ processingTimes = <<>>

Placeholder3D == [x |-> 0, y |-> 0, z |-> 0]

\* C9: the returned frame has one entry per index present in both input
\* frames, and every index at which either input landmark has visibility
\* < 0.5 holds the placeholder {0,0,0}.
C9_PlaceholdersKept ==
    pose3D # <<>> =>
        /\ Len(pose3D[1].landmarks) = Min2(Len(landmarks2D_cam1), Len(landmarks2D_cam2))
        /\ \A k \in DOMAIN pose3D[1].landmarks :
              (LowVisibility(landmarks2D_cam1[k]) \/ LowVisibility(landmarks2D_cam2[k]))
                  => pose3D[1].landmarks[k] = Placeholder3D

\* an index whose two input landmarks are visible has a singular matrix
SingularAt(k) ==
    /\ k \in DOMAIN landmarks2D_cam1 /\ k \in DOMAIN landmarks2D_cam2
    /\ ~LowVisibility(landmarks2D_cam1[k]) /\ ~LowVisibility(landmarks2D_cam2[k])
    /\ triangulatePoint(calibration, ToPixels(landmarks2D_cam1[k]), ToPixels(landmarks2D_cam2[k])) = <<>>

\* C10: when the normal-equations matrix of a landmark pair is singular, a
\* calibrated call still returns a frame.
C10_SingularKeepsFrame ==
    (calibration.isCalibrated /\ \E k \in 1..33 : SingularAt(k)) => pose3D # <<>>

\* ------------------------------------------------------------------------
\* Claims about DropJumpAnalyzer
\* ------------------------------------------------------------------------
\* the athlete performs one landing: the velocity is below -0.8 (here -1.0)
\* for 15 to 45 frames and above -0.2 before and after
SingleLanding == jump.dipDrop = 10 /\ jump.dipLength \in {15, 16, 45}

\* C11: a single landing adds exactly one trial to the trial list, however
\* many further frames are processed afterwards: the list never holds a
\* second trial.
C11_OneTrialPerLanding == SingleLanding => Len(trials) <= 1

\* C12: a dip below -0.8 that lasts only 5 frames before the velocity rises
\* above -0.2 produces no trial, whatever velocities above -0.2 follow.
C12_ShortDipNoTrial == (jump.dipDrop = 10 /\ jump.dipLength = 5) => trials = <<>>

\* the claims' own reading of a valid candidate: 100 ms to 500 ms inclusive
\* and |maxVelocity| > 0.5
ValidCandidate(phase) ==
    /\ phase.duration >= 900 /\ phase.duration <= 4500
    /\ (phase.maxVelocity > 500 \/ phase.maxVelocity < -500)

\* the candidates a detection pass over the buffer finds
CandidatesIn(buffer) ==
    IF Len(buffer) % DetectEvery = 0 /\ Len(buffer) >= WindowSize
    THEN identifyLandingPhases(SubSeq(buffer, Len(buffer) - WindowSize + 1, Len(buffer)))
    ELSE <<>>

\* C13: a candidate found by detectLandingEvents is appended to the trial
\* list iff its duration is between 100 ms and 500 ms inclusive and
\* |maxVelocity| > 0.5; any other candidate leaves the list unchanged.
C13_AppendedIffValid ==
    [][(isAnalyzing /\ frameBuffer' # frameBuffer /\ frameBuffer' # <<>>) =>
          LET valid == SelectSeq(CandidatesIn(frameBuffer'), ValidCandidate)
          IN  /\ Len(trials') = Len(trials) + Len(valid)
              /\ SubSeq(trials', 1, Len(trials)) = trials
              /\ \A k \in 1..Len(valid) :
                    trials'[Len(trials) + k].landingPhase = valid[k]]_vars

\* a landing of exactly 45 frames (500 ms) has become a trial
C13_Witness ==
    /\ trials # <<>>
    /\ trials[1].landingPhase.duration = 4500
    /\ jump.dipLength = 45

\* C14: for every trial metric set, assessOverallRisk totals 2 for a left or
\* right knee valgus above 15, 1 for a valgus asymmetry above 10, 1 for a
\* sagittal trunk lean above 15 or a frontal one above 10, 1 for an invalid arm
\* position and 1 for an instability index above 0.5, and returns high for a
\* total of 3 or more, moderate for 1 or 2 and low for 0.
C14_Total ==
    LET m == fnArgs[1]
    IN  (IF m.maxKneeValgus.left > 1500 THEN 2
         ELSE IF m.maxKneeValgus.right > 1500 THEN 2 ELSE 0)
        + (IF m.maxKneeValgus.asymmetry > 1000 THEN 1 ELSE 0)
        + (IF m.trunkLean.sagittal > 1500 THEN 1
           ELSE IF m.trunkLean.frontal > 1000 THEN 1 ELSE 0)
        + (IF m.armPosition.valid THEN 0 ELSE 1)
        + (IF m.instabilityIndex > 500 THEN 1 ELSE 0)

C14_RiskFromTotal ==
    op = "assessOverallRisk" =>
        /\ C14_Total >= 3 => fnResult[1] = "high"
        /\ C14_Total \in {1, 2} => fnResult[1] = "moderate"
        /\ C14_Total = 0 => fnResult[1] = "low"

\* only a valgus above 15 and nothing else: total 2, moderate; with the
\* invalid arm position added the total is 3, high
C14_Witness ==
    /\ op = "assessOverallRisk"
    /\ fnArgs[1].maxKneeValgus.left = 1501
    /\ fnArgs[1].maxKneeValgus.right = 1400
    /\ C14_Total = 3
    /\ ~fnArgs[1].armPosition.valid
    /\ fnResult[1] = "high"

\* C15: getOverallAssessment returns high iff at least 50% of the trials are
\* high-risk; otherwise moderate iff at least 30% are high-risk or at least
\* 50% are moderate-risk; otherwise low; low for an empty trial list.
C15_Count(risk) ==
    Cardinality({k \in 1..Len(fnArgs[1]) : fnArgs[1][k].metrics.overallRisk = risk})

C15_OverallAssessment ==
    op = "getOverallAssessment" =>
        LET total == Len(fnArgs[1])
            halfHigh == 2 * C15_Count("high") >= total
            thirtyHigh == 10 * C15_Count("high") >= 3 * total
            halfModerate == 2 * C15_Count("moderate") >= total
        IN  IF total = 0 THEN fnResult[1] = "low"
            ELSE /\ fnResult[1] = "high" <=> halfHigh
                 /\ fnResult[1] = "moderate" <=> (~halfHigh /\ (thirtyHigh \/ halfModerate))
                 /\ fnResult[1] = "low" <=> (~halfHigh /\ ~thirtyHigh /\ ~halfModerate)

\* 3 high-risk trials of 10 (exactly 30%) with 3 moderate ones: moderate
C15_Witness ==
    /\ op = "getOverallAssessment"
    /\ Len(fnArgs[1]) = 10
    /\ C15_Count("high") = 3
    /\ C15_Count("moderate") = 3
    /\ fnResult[1] = "moderate"

\* ------------------------------------------------------------------------
\* Claims about the audit trail
\* a save of the current test when it already has a saved score
LaterSave ==
    /\ assessmentScores' # assessmentScores
    /\ FindIndex(assessmentScores, FMS_TESTS[currentTest].id) # 0

\* C16: the auditTrail.originalScore stored at the first scoring of a test is
\* the same after every later save of that test, whatever automatic scores
\* are computed from later frames.
C16_OriginalScoreKept ==
    [][LaterSave =>
        SavedScore(assessmentScores', currentTest).auditTrail.originalScore
            = SavedScore(assessmentScores, currentTest).auditTrail.originalScore]_vars

\* C17: each save appends exactly one entry to the test's audit trail and
\* keeps the earlier entries unchanged and in order; the new entry's from is
\* the previously saved score of the test (the automatic score on the first
\* save) and its to is the newly saved score.
C17_OneEntryPerSave ==
    [][assessmentScores' # assessmentScores =>
        LET before == SavedChanges(assessmentScores, currentTest)
            after == SavedChanges(assessmentScores', currentTest)
            previous == IF FindIndex(assessmentScores, FMS_TESTS[currentTest].id) # 0
                        THEN SavedScore(assessmentScores, currentTest).score
                        ELSE automaticScore
        IN  /\ Len(after) = Len(before) + 1
            /\ SubSeq(after, 1, Len(before)) = before
            /\ after[Len(after)].from = previous
            /\ after[Len(after)].to = SavedScore(assessmentScores', currentTest).score
            /\ \A t \in CardTests \ {currentTest} :
                 SavedChanges(assessmentScores', t) = SavedChanges(assessmentScores, t)]_vars

\* a second save of a test whose saved score differed from the automatic
\* score: its entry starts from the saved score, after the first entry
C17_Witness ==
    /\ FindIndex(assessmentScores, FMS_TESTS[currentTest].id) # 0
    /\ LET score == SavedScore(assessmentScores, currentTest)
       IN  /\ Len(score.auditTrail.changes) = 2
           /\ score.auditTrail.changes[1].to # score.automaticScore
           /\ score.auditTrail.changes[2].from = score.auditTrail.changes[1].to
           /\ score.auditTrail.changes[2].to = score.score

\* ------------------------------------------------------------------------
\* Claims about the angle and symmetry functions
\* the vector from the vertex b to p has zero length in the coordinates of
\* the plane
ZeroInPlane(p, b, plane) ==
    CASE plane = "sagittal" -> p.y = b.y /\ p.z = b.z
      [] plane = "frontal" -> p.x = b.x /\ p.y = b.y
      [] plane = "transverse" -> p.x = b.x /\ p.z = b.z

\* C18: for three points where either vector from the vertex has zero length
\* in the coordinates used, calculateAngle and calculateJointAngle3D return
\* 0 and never NaN.
C18_DegenerateGivesZero ==
    /\ (op = "calculateAngle"
        /\ (fnArgs[1] = fnArgs[2] \/ fnArgs[3] = fnArgs[2])) => fnResult[1] = 0
    /\ (op = "calculateJointAngle3D"
        /\ (ZeroInPlane(fnArgs[1], fnArgs[2], fnArgs[4])
            \/ ZeroInPlane(fnArgs[3], fnArgs[2], fnArgs[4]))) => fnResult[1] = 0

\* C20: for every pair of equal left and right values
\* calculateBilateralSymmetry returns index 0 with normal = true; for 20 and
\* 10 in either order it returns index 50 with normal = false.
C20_SymmetryIndex ==
    op = "calculateBilateralSymmetry" =>
        /\ fnArgs[1] = fnArgs[2] => (fnResult[1].value = 0 /\ fnResult[1].normal)
        /\ (fnArgs = <<20, 10>> \/ fnArgs = <<10, 20>>) =>
              (fnResult[1].value = 500 /\ ~fnResult[1].normal)

\* ------------------------------------------------------------------------
\* Claims about the deviation of a MetricResult
\* the band a definition of one of the four shapes allows: <<>> for no bound
\* on that side
BandMin(metric) ==
    IF metric.targetExact # <<>> THEN <<metric.targetExact[1] - metric.tolerance>>
    ELSE metric.targetMin

BandMax(metric) ==
    IF metric.targetExact # <<>> THEN <<metric.targetExact[1] + metric.tolerance>>
    ELSE metric.targetMax

\* min and max, min only, max only, or exact target alone
OneOfFourShapes(metric) ==
    IF metric.targetExact # <<>>
    THEN metric.targetMin = <<>> /\ metric.targetMax = <<>>
    ELSE metric.targetMin # <<>> \/ metric.targetMax # <<>>

\* the deviation a failing result may report for the band edge it is beyond:
\* the distance to that edge, to one decimal as the result keeps it; for an
\* exact target the distance to the target is accepted as well
DistanceTo(metric, actualValue, edge) ==
    {Round1(Abs(actualValue - edge))}
        \cup (IF metric.targetExact # <<>>
              THEN {Round1(Abs(actualValue - metric.targetExact[1]))}
              ELSE {})

\* C19: for every definition shape and every value, the MetricResult has
\* deviation 0 whenever pass is true; otherwise its deviation is the distance
\* from the value to the violated bound, with direction '+' above the band
\* and '-' below it.
C19_DeviationFromBound ==
    (op = "evaluate" /\ evActual # NaN /\ OneOfFourShapes(evMetric)) =>
        LET below == BandMin(evMetric) # <<>> /\ evActual < BandMin(evMetric)[1]
            above == BandMax(evMetric) # <<>> /\ evActual > BandMax(evMetric)[1]
        IN  /\ evResult.pass => evResult.deviation = 0
            /\ (~evResult.pass /\ below) =>
                  /\ evResult.deviation \in DistanceTo(evMetric, evActual, BandMin(evMetric)[1])
                  /\ evResult.deviationDirection = "-"
            /\ (~evResult.pass /\ above) =>
                  /\ evResult.deviation \in DistanceTo(evMetric, evActual, BandMax(evMetric)[1])
                  /\ evResult.deviationDirection = "+"

\* ------------------------------------------------------------------------
\* Claims about the end of a landing
\* the first index at or after startFrame + 15 whose velocity is above -0.2,
\* or -1 when the velocities hold none
FirstEndAllowed(velocities, startFrame) ==
    LET ends == {i \in (startFrame + 15)..(Len(velocities) - 1) : velocities[i + 1] > -200}
    IN  IF ends = {} THEN -1 ELSE CHOOSE i \in ends : \A other \in ends : i <= other

\* C21: a landing in progress ends at the first frame whose velocity is above
\* -0.2 and at which at least 15 frames have elapsed since the landing start
\* frame, the frame at which exactly 15 frames have elapsed included.
C21_EndsAtFifteenFrames ==
    [][(isAnalyzing /\ frameBuffer' # frameBuffer /\ Len(frameBuffer') >= WindowSize) =>
          LET window == SubSeq(frameBuffer', Len(frameBuffer') - WindowSize + 1, Len(frameBuffer'))
              velocities == calculateVerticalVelocities(window)
              phases == CandidatesIn(frameBuffer')
          IN  \A k \in 1..Len(phases) :
                 phases[k].endFrame = FirstEndAllowed(velocities, phases[k].startFrame)]_vars

\* ------------------------------------------------------------------------
\* Claims about the pain flag and new automatic scores
\* C22: once the clinician has switched the pain flag on in the card (the
\* card is being edited and shows the flag set), a Save issued with no
\* further clinician input emits score 0 with painReported = true, even if a
\* new automatic score for the same test has arrived in between.
C22_PainSurvivesNewScore ==
    [][(isEditing /\ painReported /\ automaticScore' # automaticScore
        /\ currentTest' = currentTest) =>
          LET emitted == BuildScore(FMS_TESTS[currentTest].id, automaticScore', manualScore',
                                    painReported', overrideReason', assessmentScores')
          IN  emitted.score = 0 /\ emitted.painReported]_vars

\* ------------------------------------------------------------------------
\* Claims about the frame buffer
\* C25: after any sequence of processFrame calls in a session the buffer
\* holds at most 450 frames, and these are the most recently received frames
\* in arrival order (the oldest frame is dropped first).
C25_BufferHoldsLatest ==
    /\ Len(frameBuffer) <= 450
    /\ Len(frameBuffer) = Min2(received, 450)
    /\ \A k \in 1..Len(frameBuffer) :
          frameBuffer[k].timestamp = (received - Len(frameBuffer) + k - 1) * FrameInterval

\* 455 frames were received: the first 5 have been dropped
C25_Witness ==
    /\ received = 455
    /\ Len(frameBuffer) = 450
    /\ frameBuffer[1].timestamp = 5 * FrameInterval

\* ------------------------------------------------------------------------
\* Claims about the monotonicity of the automatic score
\* C26: changing one metric result from pass to fail while all other results
\* stay the same never increases the value of generateAutomaticScore, in
\* particular when the changed metric is critical.
C26_FailNeverRaisesScore ==
    op = "generateAutomaticScore" =>
        \A k \in 1..Len(gasResults) :
            gasResults[k].pass =>
                generateAutomaticScore([gasResults EXCEPT ![k].pass = FALSE]) <= gasScore

\* ------------------------------------------------------------------------
\* Claims about the assessment built from the analyzer's trials
\* C27: for every list of trials produced by DropJumpAnalyzer, the overall
\* risk of the assessment built by generateAssessment equals
\* getOverallAssessment for the same trials, and its risk distribution equals
\* getRiskDistribution.
C27_AssessmentMatchesAnalyzer ==
    /\ generateAssessment(trials).overallRisk = getOverallAssessment(trials)
    /\ generateAssessment(trials).riskDistribution = getRiskDistribution(trials)

\* ------------------------------------------------------------------------
\* Claims about the dual-camera driver
\* C23: every pair of landmark sets passed to process3DPose comes from the
\* same capture tick of the two cameras, and no landmark set is used in more
\* than one call.
C23_PairsFromSameTick ==
    /\ \A k \in 1..Len(stereoCalls) : stereoCalls[k][1].tick = stereoCalls[k][2].tick
    /\ \A j, k \in 1..Len(stereoCalls) :
          j # k => (stereoCalls[j][1] # stereoCalls[k][1] /\ stereoCalls[j][2] # stereoCalls[k][2])

\* C24: while a recording is active, every 3D pose computed by
\* processCombinedResults is passed to DropJumpAnalyzer.processFrame.
C24_RecordedPosesReachAnalyzer ==
    [][(isRecording /\ stereoCalls' # stereoCalls) => received' = received + 1]_vars

\* ------------------------------------------------------------------------
\* Claims about the detector's visibility values
\* the detector reports the landmark with visibility below 0.5, 0 or none
DetectorLow(landmark) == landmark.visibility = <<>> \/ landmark.visibility[1] < 50

\* C28: a landmark that the detector reports with visibility below 0.5
\* (visibility 0 or no visibility value included) never contributes to a
\* reported joint angle.
C28_LowLandmarkNotUsed ==
    op = "onResults" =>
        \A k \in 1..Len(Joints) :
            (\/ DetectorLow(fnArgs[1][Joints[k].p1 + 1])
             \/ DetectorLow(fnArgs[1][Joints[k].p2 + 1])
             \/ DetectorLow(fnArgs[1][Joints[k].p3 + 1]))
                => FindAngle(jointAngles, Joints[k].name) = <<>>

\* ------------------------------------------------------------------------
\* Claims about MotionCaptureSystem recordings
\* C29: a MotionRecording returned by stopRecording has as many frames as its
\* metadata.totalFrames says, whatever processFrame call was awaiting a
\* detector when stopRecording was called.
C29_RecordingNeverChanges ==
    \A k \in 1..Len(mcsRecordings) :
        Len(mcsArrays[mcsRecordings[k].frames]) = mcsRecordings[k].totalFrames

\* ------------------------------------------------------------------------
\* Claims about the tests the evaluator has no formula for
\* the automatic score claimed for active-straight-leg-raise,
\* trunk-stability-pushup, rotary-stability, shoulder-mobility and drop-jump
DefaultScoreOf(t) ==
    CASE FMS_TESTS[t].id = "active-straight-leg-raise" -> 2
      [] FMS_TESTS[t].id = "trunk-stability-pushup" -> 3
      [] FMS_TESTS[t].id = "rotary-stability" -> 3
      [] FMS_TESTS[t].id = "shoulder-mobility" -> 1
      [] FMS_TESTS[t].id = "drop-jump" -> 3
      [] OTHER -> -1

\* C30: for active-straight-leg-raise, trunk-stability-pushup,
\* rotary-stability, shoulder-mobility and drop-jump every metric takes the
\* default value 0 with confidence 0, and the automatic score is 2, 3, 3, 1
\* and 3 whatever the landmark frame.
C30_DefaultScores ==
    (op = "getDetailedMetricResults" /\ DefaultScoreOf(metricTest) # -1) =>
        /\ \A i \in DOMAIN results :
               results[i].actualValue = 0 /\ results[i].confidence = 0
        /\ generateAutomaticScore(results) = DefaultScoreOf(metricTest)

\* shoulder-mobility evaluated on a frame of 33 fully visible landmarks
C30_Witness ==
    /\ op = "getDetailedMetricResults"
    /\ FMS_TESTS[metricTest].id = "shoulder-mobility"
    /\ Len(landmarks) = 33
    /\ \A k \in MetricIdx : VisibleGate(landmarks[k + 1])
    /\ generateAutomaticScore(results) = 1

=============================================================================
